---- MODULE Spec2Model ----
(***************************************************************************)
(* A model of the cohort simulation engine of the Human Resource Simulator *)
(* (@hr-sim/core): the SeededRandom generator, the CES capability          *)
(* aggregation, the SimulationEngine and the simulation web worker.        *)
(*                                                                         *)
(* Number representation.  TLC integers are 32-bit, the program computes   *)
(* in IEEE doubles:                                                        *)
(*   - a 32-bit word is a pair <<hi, lo>> of 16-bit halves;                *)
(*   - a skill mean or a capability value v is the integer v * 12000       *)
(*     (every growth and decay step of the engine is a multiple of         *)
(*     1/12000, so deterministic runs are exact on this grid);             *)
(*   - a score shown in points (deviation, succession, total) is the      *)
(*     integer score * 100, rounded toward minus infinity.                 *)
(***************************************************************************)
EXTENDS Integers, Sequences, FiniteSets, TLC

\* F(v) with v computed once, before F runs: a const binding of the program
With(v, F(_)) == CHOOSE y \in {F(x) : x \in {v}} : TRUE

\* ------------------------------------------------------------------------
\* 32-bit arithmetic on <<hi, lo>> halves
\* ------------------------------------------------------------------------

RECURSIVE NibXor(_, _, _)
NibXor(a, b, n) ==
  IF n = 0 THEN 0
  ELSE ((a + b) % 2) + 2 * NibXor(a \div 2, b \div 2, n - 1)

RECURSIVE NibOr(_, _, _)
NibOr(a, b, n) ==
  IF n = 0 THEN 0
  ELSE (IF (a % 2) + (b % 2) > 0 THEN 1 ELSE 0) + 2 * NibOr(a \div 2, b \div 2, n - 1)

XorTab == [a \in 0..15 |-> [b \in 0..15 |-> NibXor(a, b, 4)]]

OrTab == [a \in 0..15 |-> [b \in 0..15 |-> NibOr(a, b, 4)]]

Xor16(a, b) ==
  XorTab[a % 16][b % 16]
  + 16 * XorTab[(a \div 16) % 16][(b \div 16) % 16]
  + 256 * XorTab[(a \div 256) % 16][(b \div 256) % 16]
  + 4096 * XorTab[a \div 4096][b \div 4096]

Or16(a, b) ==
  OrTab[a % 16][b % 16]
  + 16 * OrTab[(a \div 16) % 16][(b \div 16) % 16]
  + 256 * OrTab[(a \div 256) % 16][(b \div 256) % 16]
  + 4096 * OrTab[a \div 4096][b \div 4096]

\* a ^ b
Xor32(a, b) == <<Xor16(a[1], b[1]), Xor16(a[2], b[2])>>

\* a | k for a small constant k < 65536
OrLow(a, k) == <<a[1], Or16(a[2], k)>>

\* a >>> n, 0 < n < 16
Shr(a, n) ==
  LET p == 2 ^ n
      q == 2 ^ (16 - n)
  IN  <<a[1] \div p, (a[1] % p) * q + (a[2] \div p)>>

\* (a + b) mod 2^32
Add32(a, b) ==
  LET lo == a[2] + b[2]
  IN  <<(a[1] + b[1] + (lo \div 65536)) % 65536, lo % 65536>>

\* (x * y) mod 2^16 for 16-bit x, y, without leaving 32 bits
MulLow16(x, y) == (x * (y % 256) + ((x * (y \div 256)) % 256) * 256) % 65536

\* Math.imul(a, b): the low 32 bits of the product
imul(a, b) ==
  LET p0  == a[2] * (b[2] % 256)
      p1  == a[2] * (b[2] \div 256)
      low == p0 + (p1 % 256) * 256
      lo  == low % 65536
      car == (low \div 65536) + (p1 \div 256)
      hi  == (car + MulLow16(a[1], b[2]) + MulLow16(a[2], b[1])) % 65536
  IN  <<hi, lo>>

\* seed >>> 0: ToUint32 of an integer seed (two's complement for a negative one)
ToUint32(s) == <<(s \div 65536) % 65536, s % 65536>>

\* ------------------------------------------------------------------------
\* SeededRandom (Mulberry32)
\* ------------------------------------------------------------------------

\* The increment 0x6d2b79f5 of next()
GoldenInc == <<27947, 31221>>

\* Date.now() of the caller: the time of the clock
VARIABLE now

\* The constructor as it would be if it took Date.now() whatever the seed
SeededRandomFromClock(seed) == ToUint32(now)

\* new SeededRandom(seed)
SeededRandomNew(seed) == ToUint32(seed)

\* next(): the new generator state and the 32-bit numerator u of the value
\* u / 4294967296.  this.seed is kept mod 2^32: the bit operators of next()
\* read nothing else of it.
next(s) ==
  LET s1 == Add32(s, GoldenInc)
  IN  With(imul(Xor32(s1, Shr(s1, 15)), OrLow(s1, 1)),
           LAMBDA t1 :
             With(Xor32(t1, Add32(t1, imul(Xor32(t1, Shr(t1, 7)), OrLow(t1, 61)))),
                  LAMBDA t2 : [seed |-> s1, u |-> Xor32(t2, Shr(t2, 14))]))

\* this.state after n calls of next(): each call adds 0x6D2B79F5 (mod 2^32)
Advance(s, n) == Add32(s, imul(ToUint32(n), GoldenInc))

\* floor(u / 2^32 * span) for the numerator u of next() and 0 <= span < 2^15
ScaleFloor(u, span) == (u[1] * span + (u[2] * span) \div 65536) \div 65536

\* range(min, max): min + next() * (max - min), kept as the exact value
\* base + u * span / 2^32
range(s, min, max) ==
  With(next(s), LAMBDA r : [seed |-> r.seed, value |-> [base |-> min, span |-> max - min, u |-> r.u]])

\* int(min, max): Math.floor(this.range(min, max + 1))
int(s, min, max) ==
  With(range(s, min, max + 1),
       LAMBDA r : [seed |-> r.seed, value |-> r.value.base + ScaleFloor(r.value.u, r.value.span)])

\* Math.sqrt(-2 * Math.log(u1)) * 1000 at the middle of each 32nd of [0, 1)
RadiusTab ==
  << 2884, 2474, 2258, 2104, 1981, 1877, 1785, 1703, 1628, 1558, 1493, 1431,
     1371, 1314, 1258, 1204, 1151, 1099, 1047, 995, 944, 892, 839, 786, 731,
     674, 614, 551, 481, 403, 310, 177 >>

\* Math.cos(2 * Math.PI * u2) * 1000 at the middle of each 32nd of [0, 1)
CosTab ==
  << 995, 957, 882, 773, 634, 471, 290, 98, -98, -290, -471, -634, -773,
     -882, -957, -995, -995, -957, -882, -773, -634, -471, -290, -98, 98, 290,
     471, 634, 773, 882, 957, 995 >>

\* gaussian(mean, std): Box-Muller from two next() calls; the value in
\* thousandths, mean and std integers
gaussian(s, mean, std) ==
  With(next(s),
       LAMBDA r1 :
         With(next(r1.seed),
              LAMBDA r2 :
                [seed  |-> r2.seed,
                 value |-> mean * 1000
                           + ((RadiusTab[r1.u[1] \div 2048 + 1] * CosTab[r2.u[1] \div 2048 + 1])
                              \div 1000) * std]))

\* The do-while loop of truncatedGaussian stops after maxAttempts
maxAttempts == 100

\* truncatedGaussian as it would be if it returned the last value as drawn
truncatedGaussianWithoutClamp(s, mean, std, min, max) ==
  LET attempt(k) == gaussian(Advance(s, 2 * (k - 1)), mean, std)
      within(k)  == attempt(k).value >= min * 1000 /\ attempt(k).value <= max * 1000
      stop       == IF \E k \in 1..maxAttempts : within(k)
                      THEN CHOOSE k \in 1..maxAttempts :
                             within(k) /\ \A j \in 1..(k - 1) : ~within(j)
                      ELSE maxAttempts
  IN  attempt(stop)

\* truncatedGaussian(mean, std, min, max): the first of at most maxAttempts
\* gaussian values within [min, max], and the last one clamped when none is.
\* Attempt k starts from the generator after the 2 * (k - 1) calls of the
\* attempts before it.
truncatedGaussian(s, mean, std, min, max) ==
  LET attempt(k) == gaussian(Advance(s, 2 * (k - 1)), mean, std)
      within(k)  == attempt(k).value >= min * 1000 /\ attempt(k).value <= max * 1000
      stop       == IF \E k \in 1..maxAttempts : within(k)
                      THEN CHOOSE k \in 1..maxAttempts :
                             within(k) /\ \A j \in 1..(k - 1) : ~within(j)
                      ELSE maxAttempts
  IN  With(attempt(stop),
           LAMBDA r : [seed  |-> r.seed,
                       value |-> IF r.value < min * 1000 THEN min * 1000
                                 ELSE IF r.value > max * 1000 THEN max * 1000
                                 ELSE r.value])

\* The loop of shuffle from index i (1-based: i + 1) down to 1
RECURSIVE shuffleFrom(_, _, _)
shuffleFrom(s, result, i) ==
  IF i <= 0 THEN [seed |-> s, value |-> result]
  ELSE With(int(s, 0, i),
            LAMBDA r :
              shuffleFrom(r.seed,
                          [result EXCEPT ![i + 1] = result[r.value + 1],
                                         ![r.value + 1] = result[i + 1]],
                          i - 1))

\* shuffle(array): Fisher-Yates on a copy
shuffle(s, array) == shuffleFrom(s, array, Len(array) - 1)

\* pick(array): array[this.int(0, array.length - 1)], undefined for []
pick(s, array) ==
  With(int(s, 0, Len(array) - 1),
       LAMBDA r : [seed  |-> r.seed,
                   value |-> IF r.value + 1 \in DOMAIN array THEN array[r.value + 1]
                             ELSE "undefined"])

\* chance(probability): next() < probability, the probability in percent
chance(s, percent) ==
  With(next(s),
       LAMBDA r : [seed |-> r.seed,
                   value |-> 100 * r.u[1] + (100 * r.u[2]) \div 65536 < percent * 65536])

\* ------------------------------------------------------------------------
\* Types and constants (types/index.ts)
\* ------------------------------------------------------------------------

CAPABILITY_AXIS_KEYS ==
  <<"basicScience", "appliedTech", "digitalAI", "manufacturing", "finance",
    "energy", "globalCompete", "innovation", "education", "policyMaking",
    "implementation", "succession">>

AxisSet == {CAPABILITY_AXIS_KEYS[i] : i \in 1..Len(CAPABILITY_AXIS_KEYS)}

SECTOR_KEYS == <<"university", "industry", "government", "research">>

SectorSet == {SECTOR_KEYS[i] : i \in 1..Len(SECTOR_KEYS)}

\* SECTORS[*].growthAxes
growthAxes(sector) ==
  CASE sector = "university" -> {"basicScience", "education", "innovation"}
    [] sector = "industry"   -> {"appliedTech", "manufacturing", "digitalAI", "implementation"}
    [] sector = "government" -> {"policyMaking", "globalCompete"}
    [] sector = "research"   -> {"basicScience", "appliedTech", "innovation", "globalCompete"}

DEFAULT_INVESTMENTS ==
  [university |-> 30, industry |-> 35, government |-> 15, research |-> 20]

\* populationDeclineRate (1.2) is kept in tenths; the engine never reads it.
DEFAULT_POLICY_PARAMS ==
  [masterEnrollment |-> 12, phdEnrollment |-> 10, phdToAcademia |-> 18,
   populationDeclineRate |-> 12, retirementAgeExtension |-> 0]

\* One point of a skill mean or capability value in model units.
Unit == 100 * 120

\* SIMULATION_CONSTANTS.STANDARD_DECAY = 0.3 and DIGITAL_AI_DECAY = 1.5, in units
STANDARD_DECAY == 3600

DIGITAL_AI_DECAY == 18000

\* SIMULATION_CONSTANTS.AGE_EFFICIENCY_MIN = 0.3 in sixtieths (of AGE_EFFICIENCY_RANGE)
AGE_EFFICIENCY_MIN == 18

AGE_EFFICIENCY_BASE_AGE == 22

AGE_EFFICIENCY_RANGE == 60

DEVIATION_BASE == 50

DEVIATION_SCALE == 10

\* ------------------------------------------------------------------------
\* Engine tables (engines/SimulationEngine.ts)
\* ------------------------------------------------------------------------

\* POPULATION_STATS.projections, the factor in percent
ProjectionYears == <<2024, 2030, 2040, 2050, 2060>>

ProjectionPct == <<100, 95, 84, 72, 60>>

\* SECTOR_GROWTH_MAP[sector][axis] ?? 0.5, doubled (of applySkillGrowth)
GrowthMul2(sector, axis) ==
  CASE sector = "university" ->
         (CASE axis = "basicScience" -> 5 [] axis = "education" -> 4
            [] axis = "innovation" -> 3 [] axis = "succession" -> 2
            [] OTHER -> 1)
    [] sector = "industry" ->
         (CASE axis = "appliedTech" -> 6 [] axis = "manufacturing" -> 5
            [] axis = "digitalAI" -> 4 [] axis = "implementation" -> 4
            [] axis = "finance" -> 2 [] OTHER -> 1)
    [] sector = "government" ->
         (CASE axis = "policyMaking" -> 4 [] axis = "globalCompete" -> 3
            [] axis = "energy" -> 2 [] OTHER -> 1)
    [] sector = "research" ->
         (CASE axis = "basicScience" -> 5 [] axis = "appliedTech" -> 4
            [] axis = "innovation" -> 5 [] axis = "globalCompete" -> 3
            [] axis = "digitalAI" -> 3 [] OTHER -> 1)

getDecayRate(axisKey) ==
  IF axisKey = "digitalAI" THEN DIGITAL_AI_DECAY ELSE STANDARD_DECAY

\* createSkills(sectorKey, bonus) of createInitialCohorts: baseMean 50, baseStd 12
createSkills(sectorKey, bonus) ==
  [axis \in AxisSet |->
     [mean |-> (50 + bonus + (IF axis \in growthAxes(sectorKey) THEN 10 ELSE 0)) * Unit,
      std  |-> 12]]

Cohort(id, sector, role, count, avgAge, avgTenure, maxTenure, bonus) ==
  [id |-> id, sector |-> sector, role |-> role, count |-> count,
   avgAge |-> avgAge, avgTenure |-> avgTenure, maxTenure |-> maxTenure,
   skills |-> createSkills(sector, bonus)]

\* The role is the roleEn label; IsSeniorRole below gives the outcome of the
\* substring tests the engine makes on the Japanese role label.
createInitialCohorts ==
  << Cohort("master_student", "university", "Master Student", 60000, 24, 1, 2, -10),
     Cohort("phd_student", "university", "PhD Student", 15000, 27, 2, 5, -5),
     Cohort("postdoc", "university", "Postdoc", 8000, 32, 2, 5, 5),
     Cohort("assist_prof", "university", "Assistant Professor", 12000, 36, 4, 10, 10),
     Cohort("prof_mid", "university", "Associate Professor", 18000, 45, 8, 15, 15),
     Cohort("prof_senior", "university", "Professor", 25000, 55, 15, 30, 20),
     Cohort("ind_junior", "industry", "Junior Engineer", 150000, 28, 3, 8, 0),
     Cohort("ind_mid", "industry", "Mid-level Engineer", 100000, 38, 10, 20, 10),
     Cohort("ind_senior", "industry", "Senior Engineer", 50000, 52, 20, 35, 15),
     Cohort("gov_junior", "government", "Junior Official", 25000, 30, 2, 5, 0),
     Cohort("gov_mid", "government", "Mid-level Official", 18000, 42, 5, 10, 10),
     Cohort("gov_senior", "government", "Senior Official", 7000, 55, 10, 20, 15),
     Cohort("res_junior", "research", "Junior Researcher", 20000, 30, 3, 8, 5),
     Cohort("res_mid", "research", "Senior Researcher", 18000, 42, 8, 15, 12),
     Cohort("res_senior", "research", "Principal Researcher", 12000, 55, 15, 25, 18) >>

\* role.includes('シニア') || role.includes('教授') || role.includes('幹部'):
\* 准教授 and 教授, シニア技術者, 幹部官僚; no research label matches.
IsSeniorRole(role) ==
  role \in {"Associate Professor", "Professor", "Senior Engineer", "Senior Official"}

\* ------------------------------------------------------------------------
\* Sequence helpers
\* ------------------------------------------------------------------------

RECURSIVE SumSeq(_)
SumSeq(q) == IF q = <<>> THEN 0 ELSE Head(q) + SumSeq(Tail(q))

RECURSIVE MinSeq(_)
MinSeq(q) ==
  IF Len(q) = 1 THEN q[1]
  ELSE LET m == MinSeq(Tail(q)) IN IF q[1] < m THEN q[1] ELSE m

RECURSIVE MaxSeq(_)
MaxSeq(q) ==
  IF Len(q) = 1 THEN q[1]
  ELSE LET m == MaxSeq(Tail(q)) IN IF q[1] > m THEN q[1] ELSE m

Min2(a, b) == IF a < b THEN a ELSE b

Max2(a, b) == IF a > b THEN a ELSE b


\* Math.round of the rational num / den, den > 0: floor(x + 0.5)
RoundDiv(num, den) == (2 * num + den) \div (2 * den)

\* floor(sum_i w[i] * v[i] / tot) for 0 <= v[i] < 2^24, in 32-bit steps
WeightedFloor(v, w, tot) ==
  LET n  == Len(v)
      S2 == SumSeq([i \in 1..n |-> w[i] * (v[i] \div 65536)])
      S1 == SumSeq([i \in 1..n |-> w[i] * ((v[i] \div 256) % 256)])
      S0 == SumSeq([i \in 1..n |-> w[i] * (v[i] % 256)])
      a1 == (S2 % tot) * 256 + S1
      a0 == (a1 % tot) * 256 + S0
  IN  (S2 \div tot) * 65536 + (a1 \div tot) * 256 + (a0 \div tot)

\* ------------------------------------------------------------------------
\* CES aggregation (math/ces.ts) and statistics used by it (math/statistics.ts)
\* ------------------------------------------------------------------------

\* Math.pow(i, 0.8) * 10000 rounded, for i = 0..100 (entry i + 1)
PowTab ==
  << 0, 10000, 17411, 24082, 30314, 36239, 41930, 47433, 52780, 57995,
     63096, 68095, 73004, 77831, 82585, 87272, 91896, 96463, 100976,
     105439, 109856, 114229, 118560, 122852, 127107, 131326, 135512,
     139666, 143789, 147883, 151949, 155987, 160000, 163988, 167951,
     171892, 175809, 179706, 183581, 187435, 191270, 195086, 198884,
     202663, 206425, 210170, 213898, 217610, 221306, 224987, 228653,
     232304, 235941, 239564, 243173, 246769, 250352, 253922, 257479,
     261025, 264558, 268080, 271590, 275089, 278576, 282053, 285519,
     288975, 292420, 295855, 299281, 302696, 306102, 309498, 312885,
     316263, 319632, 322993, 326344, 329687, 333021, 336347, 339665,
     342975, 346277, 349571, 352857, 356136, 359407, 362670, 365927,
     369176, 372418, 375653, 378881, 382102, 385316, 388524, 391725,
     394919, 398107 >>

\* Math.pow(0.01, 0.8) * 10000 rounded: the power of the floor Math.max(0.01, x)
PowOfFloor == 251

\* Math.pow(Math.max(0.01, x), CES_EXPONENT), x in units, result * 10000:
\* linear between the integer points of PowTab
PowExp(x) ==
  IF x <= Unit \div 100 THEN PowOfFloor
  ELSE IF x >= 100 * Unit THEN PowTab[101]
  ELSE LET i == x \div Unit
           f == x % Unit
       IN  PowTab[i + 1] + ((PowTab[i + 2] - PowTab[i + 1]) * f) \div Unit

\* Math.pow(y, 1 / CES_EXPONENT), y * 10000 given, result in units: the
\* inverse of PowExp on the same table
PowInv(y) ==
  IF y <= PowOfFloor THEN Unit \div 100
  ELSE IF y >= PowTab[101] THEN 100 * Unit
  ELSE LET i == CHOOSE k \in 0..99 : PowTab[k + 1] <= y /\ y < PowTab[k + 2]
       IN  i * Unit + ((y - PowTab[i + 1]) * Unit) \div (PowTab[i + 2] - PowTab[i + 1])

\* calculateCESValue without the final power 1 / exponent
calculateCESValueWithoutRoot(inputs, weights) ==
  IF Len(inputs) # Len(weights) \/ Len(inputs) = 0 THEN 0
  ELSE LET totalWeight == SumSeq(weights)
       IN  IF totalWeight = 0 THEN 0
           ELSE WeightedFloor([i \in 1..Len(inputs) |-> PowExp(inputs[i])],
                              weights, totalWeight)

\* calculateCESValue(inputs, weights) with the default exponent
calculateCESValue(inputs, weights) ==
  IF Len(inputs) # Len(weights) \/ Len(inputs) = 0 THEN 0
  ELSE LET totalWeight == SumSeq(weights)
       IN  IF totalWeight = 0 THEN 0
           ELSE PowInv(WeightedFloor([i \in 1..Len(inputs) |-> PowExp(inputs[i])],
                                     weights, totalWeight))

\* percentileToZ((1 - KEY_PERSON_RATIO) * 100) = 1.6448536..., in units
KeyPersonZ == 19738

\* calculateAxisCapability(cohorts, axisKey): the CES value plus the key person
\* bonus, (sum_i (mean_i + z * std_i) * count_i * 0.05) / totalCount * 0.05
calculateAxisCapability(cohorts, axisKey) ==
  LET n       == Len(cohorts)
      inputs  == [i \in 1..n |-> cohorts[i].skills[axisKey].mean]
      weights == [i \in 1..n |-> cohorts[i].count]
      kp      == [i \in 1..n |-> inputs[i] + KeyPersonZ * cohorts[i].skills[axisKey].std]
      totalCount == SumSeq(weights)
      bonus   == IF totalCount > 0 THEN WeightedFloor(kp, weights, totalCount) \div 400
                 ELSE 0
  IN  calculateCESValue(inputs, weights) + bonus

calculateNationalCapability(cohorts) ==
  [axisKey \in AxisSet |-> calculateAxisCapability(cohorts, axisKey)]

AxisValues(capability) == [i \in 1..12 |-> capability[CAPABILITY_AXIS_KEYS[i]]]

\* calculateTotalScore: 0.6 * average + 0.4 * minimum, in units
calculateTotalScore(capability) ==
  LET values == AxisValues(capability)
  IN  (6 * (SumSeq(values) \div 12) + 4 * MinSeq(values)) \div 10

\* floor(sqrt(n)) by bisection on [lo, hi], lo * lo <= n
RECURSIVE SqrtBetween(_, _, _)
SqrtBetween(n, lo, hi) ==
  IF hi - lo <= 1 THEN lo
  ELSE LET mid == (lo + hi) \div 2
       IN  IF mid * mid <= n THEN SqrtBetween(n, mid, hi) ELSE SqrtBetween(n, lo, mid)

Sqrt(n) == SqrtBetween(n, 0, 46341)

\* normalizeCapability(capability, {mean, std}): 50 + 10 * z, in hundredths of
\* a point; std > 0 ? (value - mean) / std : 0.  mean and std in units.
normalizeCapability(capability, mean, std) ==
  [key \in AxisSet |->
     LET z1000 == IF std > 0 THEN (1000 * (capability[key] - mean)) \div std ELSE 0
     IN  DEVIATION_BASE * 100 + (DEVIATION_SCALE * z1000) \div 10]

\* normalizeToDeviation: mean and population std over the 12 axis values,
\* std = Math.sqrt(variance) || 10.  The squares are taken in hundredths of a
\* point; a spread too small to show there counts as one hundredth.
normalizeToDeviation(capability) ==
  LET values == AxisValues(capability)
      mean   == SumSeq(values) \div 12
      d100   == [i \in 1..12 |-> (values[i] - mean) \div 120]
      var    == SumSeq([i \in 1..12 |-> d100[i] * d100[i]]) \div 12
      allEq  == \A i \in 1..12 : values[i] = values[1]
      std    == IF allEq THEN 10 * Unit ELSE Max2(1, Sqrt(var)) * 120
  IN  normalizeCapability(capability, mean, std)

\* ------------------------------------------------------------------------
\* SimulationEngine: the stages of simulateYear
\* ------------------------------------------------------------------------

\* getPopulationDeclineFactor(year), in percent: the factor of the largest
\* projection year <= year, and 1.0 when there is none
getPopulationDeclineFactor(year) ==
  LET hit == {i \in 1..Len(ProjectionYears) : year >= ProjectionYears[i]}
  IN  IF hit = {} THEN 100
      ELSE ProjectionPct[CHOOSE i \in hit : \A j \in hit : j <= i]

\* applyPopulationDynamics(cohorts, params), at this.state.year of config.baseYear.
\* baseInflow = 1150000 * 0.56 * declineFactor = 6440 * pct.
applyPopulationDynamics(cohorts, params, year, baseYear) ==
  LET pct == getPopulationDeclineFactor(baseYear + year)
      me  == params.masterEnrollment
      pe  == params.phdEnrollment
      newCount(cohort) ==
        IF cohort.id = "master_student"
          THEN RoundDiv(5 * cohort.count + 322 * pct * me, 10)
        ELSE IF cohort.id = "phd_student"
          THEN RoundDiv(1750 * cohort.count + 483 * pct * me * pe, 2500)
        ELSE IF cohort.id = "ind_junior"
          THEN RoundDiv(1125 * cohort.count + 3220 * pct * (100 - me), 1250)
        ELSE cohort.count
  IN  [i \in 1..Len(cohorts) |->
         [cohorts[i] EXCEPT !.count = newCount(cohorts[i]),
                            !.avgAge = @ + 1,
                            !.avgTenure = @ + 1]]

\* calculateAgeEfficiency(age), in sixtieths
calculateAgeEfficiency(age) ==
  Max2(AGE_EFFICIENCY_MIN, AGE_EFFICIENCY_RANGE - (age - AGE_EFFICIENCY_BASE_AGE))

\* (this.rng.next() - 0.5) * 0.5 in units, from the numerator u of next()
Noise(u) == (u[1] * 6000 + (u[2] * 6000) \div 65536) \div 65536 - 3000

\* n successive next() calls: the final generator state and the n numerators
DrawN(s, n) ==
  [seed |-> Advance(s, n), us |-> [k \in 1..n |-> next(Advance(s, k - 1)).u]]

\* The body of applySkillGrowth's map for one cohort: growth = investment / 100
\* * multiplier * ageEfficiency (= inv * mul2 * eff60 units), one draw per axis
\* in CAPABILITY_AXIS_KEYS order when stochasticity is enabled
GrowCohort(cohort, investments, stochastic, s) ==
  LET eff == calculateAgeEfficiency(cohort.avgAge)
      index(axisKey) == CHOOSE k \in 1..12 : CAPABILITY_AXIS_KEYS[k] = axisKey
      grown(axisKey, us) ==
        LET growth == investments[cohort.sector] * GrowthMul2(cohort.sector, axisKey) * eff
            noise  == IF stochastic THEN Noise(us[index(axisKey)]) ELSE 0
        IN  Min2(100 * Unit, Max2(0, cohort.skills[axisKey].mean + growth + noise))
  IN  With(IF stochastic THEN DrawN(s, 12) ELSE [seed |-> s, us |-> <<>>],
           LAMBDA d :
             [seed |-> d.seed,
              cohort |-> [cohort EXCEPT !.skills =
                            [axisKey \in AxisSet |->
                               [@[axisKey] EXCEPT !.mean = grown(axisKey, d.us)]]]])

\* applySkillGrowth as it would be if it grew every cohort by the default
\* investments whatever the investments in force
applySkillGrowthByDefaultInvestments(cohorts, investments, stochastic, s) ==
  LET draws == IF stochastic THEN 12 ELSE 0
  IN  [seed    |-> Advance(s, draws * Len(cohorts)),
       cohorts |-> [i \in 1..Len(cohorts) |->
                      GrowCohort(cohorts[i], DEFAULT_INVESTMENTS, stochastic,
                                 Advance(s, draws * (i - 1))).cohort]]

\* applySkillGrowth as it would be if it drew the noise whatever
\* enableStochasticity is
applySkillGrowthAlwaysDrawing(cohorts, investments, stochastic, s) ==
  [seed    |-> Advance(s, 12 * Len(cohorts)),
   cohorts |-> [i \in 1..Len(cohorts) |->
                  GrowCohort(cohorts[i], investments, TRUE, Advance(s, 12 * (i - 1))).cohort]]

\* applySkillGrowth(cohorts, investments): the cohorts in order, the generator
\* threaded through them (12 draws for each cohort when stochasticity is on)
applySkillGrowth(cohorts, investments, stochastic, s) ==
  LET draws == IF stochastic THEN 12 ELSE 0
  IN  [seed    |-> Advance(s, draws * Len(cohorts)),
       cohorts |-> [i \in 1..Len(cohorts) |->
                      GrowCohort(cohorts[i], investments, stochastic,
                                 Advance(s, draws * (i - 1))).cohort]]

applySkillDecay(cohorts) ==
  [i \in 1..Len(cohorts) |->
     [cohorts[i] EXCEPT !.skills =
        [axisKey \in AxisSet |->
           [@[axisKey] EXCEPT !.mean = Max2(0, @ - getDecayRate(axisKey))]]]]

\* applyTransitions as it would be if it dropped a cohort past its maxTenure
applyTransitionsDroppingCohorts(cohorts) ==
  SelectSeq(cohorts, LAMBDA cohort : cohort.avgTenure <= cohort.maxTenure)

\* applyTransitions: attrition once avgTenure >= maxTenure * 0.8, with
\* attritionRate = 0.05 + (avgTenure / maxTenure) * 0.1 and
\* count = Math.round(count * (1 - attritionRate))
applyTransitions(cohorts) ==
  [i \in 1..Len(cohorts) |->
     LET cohort == cohorts[i]
     IN  IF 10 * cohort.avgTenure >= 8 * cohort.maxTenure
           THEN [cohort EXCEPT !.count =
                   RoundDiv(cohort.count * (95 * cohort.maxTenure - 10 * cohort.avgTenure),
                            100 * cohort.maxTenure)]
           ELSE cohort]

calculateTotalTalent(cohorts) == SumSeq([i \in 1..Len(cohorts) |-> cohorts[i].count])

SelectSeqIdx(cohorts, sector) == {i \in 1..Len(cohorts) : cohorts[i].sector = sector}

\* The score of one sector in calculateSuccessionScore, in hundredths of a
\* point; 0 for a sector without cohorts
SectorSuccession(cohorts, sector) ==
  LET n == Len(cohorts)
      I == SelectSeqIdx(cohorts, sector)
      SumOver(J, f) == SumSeq([i \in 1..n |-> IF i \in J THEN f[i] ELSE 0])
      age == [i \in 1..n |-> cohorts[i].avgAge]
      ageRange == (CHOOSE a \in {age[i] : i \in I} : \A i \in I : age[i] <= a)
                  - (CHOOSE a \in {age[i] : i \in I} : \A i \in I : age[i] >= a)
      ageDiversityScore == Min2(10000, (ageRange * 10000) \div 40)
      margin == [i \in 1..n |->
                   ((cohorts[i].maxTenure - cohorts[i].avgTenure) * 1000000)
                   \div cohorts[i].maxTenure]
      tenureScore == SumOver(I, margin) \div (Cardinality(I) * 100)
      cnt == [i \in 1..n |-> cohorts[i].count]
      totalCount == SumOver(I, cnt)
      seniorCount == SumOver({i \in I : IsSeniorRole(cohorts[i].role)}, cnt)
      ratio == ((seniorCount * 300) \div totalCount) * 100
               + (((seniorCount * 300) % totalCount) * 100) \div totalCount
      mentorScore == Min2(10000, ratio)
  IN  IF I = {} THEN 0
      ELSE (3 * ageDiversityScore + 4 * tenureScore + 3 * mentorScore) \div 10

\* calculateSuccessionScore: the mean of the four sector scores
calculateSuccessionScore(cohorts) ==
  SumSeq([k \in 1..4 |-> SectorSuccession(cohorts, SECTOR_KEYS[k])]) \div 4

\* The stages as they would run if skill growth and decay came before
\* population dynamics
YearPipelineGrowingFirst(cohorts, investments, policyParams, year, config, s) ==
  With(applySkillGrowth(cohorts, investments, config.enableStochasticity, s),
       LAMBDA grown :
         With(applySkillDecay(grown.cohorts),
              LAMBDA decayedCohorts :
                [seed |-> grown.seed,
                 cohorts |-> applyTransitions(
                               applyPopulationDynamics(decayedCohorts, policyParams, year,
                                                       config.baseYear))]))

\* Stages 1 to 4 of simulateYear: population dynamics, skill growth, skill
\* decay, transitions.  The cohorts of the next year and the generator state.
YearPipeline(cohorts, investments, policyParams, year, config, s) ==
  With(applyPopulationDynamics(cohorts, policyParams, year, config.baseYear),
       LAMBDA updatedCohorts :
         With(applySkillGrowth(updatedCohorts, investments, config.enableStochasticity, s),
              LAMBDA grown :
                With(applySkillDecay(grown.cohorts),
                     LAMBDA decayedCohorts :
                       [seed |-> grown.seed, cohorts |-> applyTransitions(decayedCohorts)])))

\* ------------------------------------------------------------------------
\* SimulationEngine: the instance
\*
\* An engine is a record E of its heap of objects, this.state, this.history
\* and this.rng.  Every object the program holds by reference is an element of
\* E.heap and is named by its index: the config, the cohort array of
\* state.entities (the cohort objects are reachable through it only, so they
\* are kept in it), the two capability vectors, investments, policyParams and
\* each history entry (its own copies of the vectors are reachable through it
\* only).  this.state and this.history hold references.
\* ------------------------------------------------------------------------

\* recordHistory() as it would be if it kept the newest entry only
recordHistoryOverwriting(E) ==
  [E EXCEPT !.heap = Append(@, [year |-> E.state.year]),
            !.history = << Len(E.heap) + 1 >>]

\* recordHistory(): push an entry with copies of the vectors and investments
recordHistory(E) ==
  LET st == E.state
      capability == E.heap[st.capability]
      entry == [year                 |-> st.year,
                capability           |-> capability,
                capabilityNormalized |-> E.heap[st.capabilityNormalized],
                totalScore           |-> calculateTotalScore(capability),
                successionScore      |-> st.successionScore,
                totalTalent          |-> st.totalTalent,
                investments          |-> E.heap[st.investments]]
  IN  [E EXCEPT !.heap = Append(@, entry),
                !.history = Append(@, Len(E.heap) + 1)]

\* new SimulationEngine(config), config with every field given
constructor(config) ==
  LET cohorts    == createInitialCohorts
      capability == calculateNationalCapability(cohorts)
  IN  recordHistory(
        [heap    |-> << config, cohorts, capability, normalizeToDeviation(capability),
                        DEFAULT_INVESTMENTS, DEFAULT_POLICY_PARAMS >>,
         state   |-> [year |-> 0, entities |-> 2, capability |-> 3,
                      capabilityNormalized |-> 4, investments |-> 5,
                      policyParams |-> 6,
                      totalTalent |-> calculateTotalTalent(cohorts),
                      successionScore |-> calculateSuccessionScore(cohorts),
                      config |-> 1],
         history |-> << >>,
         rng     |-> SeededRandomNew(config.seed)])

\* getState(): a new object with the fields of this.state
getState(E) == E.state

\* getHistory(): a new array of the same entries
getHistory(E) == E.history

\* setInvestments as it would be if it recorded the change in the history
setInvestmentsRecording(E, investments) ==
  recordHistory([E EXCEPT !.heap = Append(@, investments),
                          !.state.investments = Len(E.heap) + 1])

\* setInvestments(investments): a copy of the argument replaces the object
setInvestments(E, investments) ==
  [E EXCEPT !.heap = Append(@, investments),
            !.state.investments = Len(E.heap) + 1]

\* setPolicyParams as it would be if it brought the newest entry up to date
setPolicyParamsRewritingEntry(E, params) ==
  LET old == E.heap[E.state.policyParams]
      merged == [k \in DOMAIN old |-> IF k \in DOMAIN params THEN params[k] ELSE old[k]]
      newest == E.history[Len(E.history)]
  IN  [E EXCEPT !.heap = Append([@ EXCEPT ![newest].totalTalent = 0], merged),
                !.state.policyParams = Len(E.heap) + 1]

\* setPolicyParams(params): { ...this.state.policyParams, ...params }
setPolicyParams(E, params) ==
  LET old == E.heap[E.state.policyParams]
      merged == [k \in DOMAIN old |-> IF k \in DOMAIN params THEN params[k] ELSE old[k]]
  IN  [E EXCEPT !.heap = Append(@, merged),
                !.state.policyParams = Len(E.heap) + 1]

\* reset() as it would be without the new SeededRandom(seed)
resetKeepingGenerator(E) ==
  LET cohorts    == createInitialCohorts
      capability == calculateNationalCapability(cohorts)
      n          == Len(E.heap)
  IN  recordHistory(
        [heap    |-> E.heap \o << cohorts, capability, normalizeToDeviation(capability) >>,
         state   |-> [E.state EXCEPT !.year = 0, !.entities = n + 1,
                                     !.capability = n + 2,
                                     !.capabilityNormalized = n + 3,
                                     !.totalTalent = calculateTotalTalent(cohorts),
                                     !.successionScore = calculateSuccessionScore(cohorts)],
         history |-> << >>,
         rng     |-> E.rng])

\* reset() as it would be without this.history = []
resetKeepingHistory(E) ==
  LET cohorts    == createInitialCohorts
      capability == calculateNationalCapability(cohorts)
      n          == Len(E.heap)
  IN  recordHistory(
        [heap    |-> E.heap \o << cohorts, capability, normalizeToDeviation(capability) >>,
         state   |-> [E.state EXCEPT !.year = 0, !.entities = n + 1,
                                     !.capability = n + 2,
                                     !.capabilityNormalized = n + 3,
                                     !.totalTalent = calculateTotalTalent(cohorts),
                                     !.successionScore = calculateSuccessionScore(cohorts)],
         history |-> E.history,
         rng     |-> SeededRandomNew(E.heap[E.state.config].seed)])

\* reset() as it would be if it restored the default investments and policy
\* parameters
resetRestoringDefaults(E) ==
  LET cohorts    == createInitialCohorts
      capability == calculateNationalCapability(cohorts)
      n          == Len(E.heap)
  IN  recordHistory(
        [heap    |-> E.heap \o << cohorts, capability, normalizeToDeviation(capability),
                                  DEFAULT_INVESTMENTS, DEFAULT_POLICY_PARAMS >>,
         state   |-> [E.state EXCEPT !.year = 0, !.entities = n + 1,
                                     !.capability = n + 2,
                                     !.capabilityNormalized = n + 3,
                                     !.investments = n + 4,
                                     !.policyParams = n + 5,
                                     !.totalTalent = calculateTotalTalent(cohorts),
                                     !.successionScore = calculateSuccessionScore(cohorts)],
         history |-> << >>,
         rng     |-> SeededRandomNew(E.heap[E.state.config].seed)])

\* reset(): a new generator from config.seed, new cohorts, year 0, an empty
\* history with the year-0 entry; the other fields of this.state are kept
reset(E) ==
  LET cohorts    == createInitialCohorts
      capability == calculateNationalCapability(cohorts)
      n          == Len(E.heap)
  IN  recordHistory(
        [heap    |-> E.heap \o << cohorts, capability, normalizeToDeviation(capability) >>,
         state   |-> [E.state EXCEPT !.year = 0, !.entities = n + 1,
                                     !.capability = n + 2,
                                     !.capabilityNormalized = n + 3,
                                     !.totalTalent = calculateTotalTalent(cohorts),
                                     !.successionScore = calculateSuccessionScore(cohorts)],
         history |-> << >>,
         rng     |-> SeededRandomNew(E.heap[E.state.config].seed)])

\* simulateYear()
simulateYear(E) ==
  LET st == E.state
      n  == Len(E.heap)
  IN  With(YearPipeline(E.heap[st.entities], E.heap[st.investments],
                        E.heap[st.policyParams], st.year, E.heap[st.config], E.rng),
           LAMBDA r :
             With(calculateNationalCapability(r.cohorts),
                  LAMBDA capability :
                    recordHistory(
                      [heap    |-> E.heap \o << r.cohorts, capability,
                                                normalizeToDeviation(capability) >>,
                       state   |-> [st EXCEPT !.year = @ + 1, !.entities = n + 1,
                                              !.capability = n + 2,
                                              !.capabilityNormalized = n + 3,
                                              !.totalTalent = calculateTotalTalent(r.cohorts),
                                              !.successionScore =
                                                 calculateSuccessionScore(r.cohorts)],
                       history |-> E.history,
                       rng     |-> r.seed])))

\* The loop of simulateYears(years)
RECURSIVE simulateYears(_, _)
simulateYears(E, years) ==
  IF years <= 0 THEN E
  ELSE With(simulateYears(E, years - 1), LAMBDA E1 : simulateYear(E1))

\* getResult(): the state, the history and the statistics of the total scores
getResult(E) ==
  LET scores == [i \in 1..Len(E.history) |-> E.heap[E.history[i]].totalScore]
  IN  [finalState |-> getState(E),
       history    |-> getHistory(E),
       statistics |-> [avgScore |-> SumSeq(scores) \div Len(scores),
                       minScore |-> MinSeq(scores),
                       maxScore |-> MaxSeq(scores),
                       scoreGrowth |-> IF Len(scores) > 1
                                         THEN scores[Len(scores)] - scores[1] ELSE 0]]

\* ------------------------------------------------------------------------
\* The engine under test and its caller
\* ------------------------------------------------------------------------

VARIABLES
  heap, state, history, rng,   \* the engine: its objects, this.state, this.history, this.rng
  heldState, heldHistory,      \* what the caller holds: << >> or << a returned value >>
  log                          \* the calls made since construction, in order

\* Two SeededRandom instances a and b of a caller that makes the same calls on
\* both
VARIABLES
  givenSeed,                   \* the seed both instances are constructed from
  script,                      \* the calls, in the order each instance makes them
  gen                          \* per instance: this.seed, the calls made, the values returned

\* The simulation worker and the thread that posts requests to it
VARIABLES
  engine,                      \* let engine: << >> for null, or << the engine >>
  received,                    \* the requests handled so far, the last one the newest
  posted,                      \* the messages posted while handling the newest request
  results,                     \* the results array of the newest MONTE_CARLO request
  globalRng                    \* let globalRng: << >> for null, or << this.seed >>

\* A caller of the library functions
VARIABLES
  args,                        \* the arguments of the call it makes
  ret                          \* << >> before the call, then << what the call did >>

\* The prototype component TalentSimulatorV3 (talent-simulator-v3-pop.jsx)
VARIABLES
  app                          \* << >> when not mounted, or << its useState values >>

engineVars == << heap, state, history, rng, heldState, heldHistory, log >>

randomVars == << now, givenSeed, script, gen >>

workerVars == << engine, received, posted, results, globalRng >>

callVars == << args, ret >>

appVars == << app >>

vars == << engineVars, randomVars, workerVars, callVars, appVars >>

\* No call of a library function
NoCall ==
  /\ args = << >>
  /\ ret = << >>

\* No prototype component
NoApp == app = << >>

\* No worker
NoWorker ==
  /\ engine = << >>
  /\ received = << >>
  /\ posted = << >>
  /\ results = << >>
  /\ globalRng = << >>

\* No SeededRandom instances of the caller
NoInstances ==
  /\ now = 0
  /\ givenSeed = 0
  /\ script = << >>
  /\ gen = << >>

\* The number of calls a run makes
MaxOps == 3

\* The configurations, batch lengths, investments and policy parameters the
\* caller passes
Seeds == {12345}

BaseYears == {2024}

BatchYears == {0, 2}

InvestmentChoices ==
  { [university |-> 40, industry |-> 20, government |-> 10, research |-> 30] }

PolicyChoices ==
  { [masterEnrollment |-> 15, phdEnrollment |-> 12] }

Configs ==
  [mode : {"cohort"}, seed : Seeds, baseYear : BaseYears, enableStochasticity : BOOLEAN]

this == [heap |-> heap, state |-> state, history |-> history, rng |-> rng]

Become(E) ==
  /\ heap' = E.heap
  /\ state' = E.state
  /\ history' = E.history
  /\ rng' = E.rng

Constructed(configs) ==
  /\ \E config \in configs :
       \E E \in {constructor(config)} :
         heap = E.heap /\ state = E.state /\ history = E.history /\ rng = E.rng
  /\ heldState = << >>
  /\ heldHistory = << >>
  /\ log = << >>
  /\ NoInstances
  /\ NoWorker
  /\ NoApp
  /\ NoCall

Init == Constructed(Configs)

Called(call) ==
  /\ Len(log) < MaxOps
  /\ log' = Append(log, call)
  /\ UNCHANGED << randomVars, workerVars, callVars, appVars >>

SimulateYear ==
  /\ Called([op |-> "simulateYear", years |-> 1])
  /\ \E E \in {simulateYear(this)} : Become(E)
  /\ UNCHANGED << heldState, heldHistory >>

SimulateYears(years) ==
  /\ Called([op |-> "simulateYears", years |-> years])
  /\ \E E \in {simulateYears(this, years)} :
       /\ Become(E)
       /\ \E result \in {getResult(E)} :
            /\ heldState' = << result.finalState >>
            /\ heldHistory' = << result.history >>

SetInvestments(investments) ==
  /\ Called([op |-> "setInvestments", years |-> 0, investments |-> investments])
  /\ \E E \in {setInvestments(this, investments)} : Become(E)
  /\ UNCHANGED << heldState, heldHistory >>

SetPolicyParams(params) ==
  /\ Called([op |-> "setPolicyParams", years |-> 0, params |-> params])
  /\ \E E \in {setPolicyParams(this, params)} : Become(E)
  /\ UNCHANGED << heldState, heldHistory >>

Reset ==
  /\ Called([op |-> "reset", years |-> 0])
  /\ \E E \in {reset(this)} : Become(E)
  /\ UNCHANGED << heldState, heldHistory >>

Next ==
  \/ SimulateYear
  \/ \E years \in BatchYears : SimulateYears(years)
  \/ \E investments \in InvestmentChoices : SetInvestments(investments)
  \/ \E params \in PolicyChoices : SetPolicyParams(params)
  \/ Reset

Spec == Init /\ [][Next]_vars

\* ------------------------------------------------------------------------
\* A caller that keeps what getState, getHistory and getResult return and
\* writes to it
\* ------------------------------------------------------------------------

GetState ==
  /\ Called([op |-> "getState", years |-> 0])
  /\ heldState' = << getState(this) >>
  /\ UNCHANGED << heap, state, history, rng, heldHistory >>

GetHistory ==
  /\ Called([op |-> "getHistory", years |-> 0])
  /\ heldHistory' = << getHistory(this) >>
  /\ UNCHANGED << heap, state, history, rng, heldState >>

GetResult ==
  /\ Called([op |-> "getResult", years |-> 0])
  /\ \E result \in {getResult(this)} :
       /\ heldState' = << result.finalState >>
       /\ heldHistory' = << result.history >>
  /\ UNCHANGED << heap, state, history, rng >>

\* The writes of the caller: s is the returned state, h the returned history
Writes ==
  { "s.year = 99", "s.entities.pop()", "s.entities[0].count = 0",
    "s.entities[0].skills.digitalAI.mean = 0", "s.capability.basicScience = 0",
    "s.investments.university = 100", "h.pop()", "h[0].totalScore = 0" }

\* The heap after the write w through the held state s and history h
Written(w, s, h) ==
  CASE w = "s.entities.pop()" ->
         [heap EXCEPT ![s.entities] = SubSeq(@, 1, Len(@) - 1)]
    [] w = "s.entities[0].count = 0" ->
         [heap EXCEPT ![s.entities][1].count = 0]
    [] w = "s.entities[0].skills.digitalAI.mean = 0" ->
         [heap EXCEPT ![s.entities][1].skills.digitalAI.mean = 0]
    [] w = "s.capability.basicScience = 0" ->
         [heap EXCEPT ![s.capability].basicScience = 0]
    [] w = "s.investments.university = 100" ->
         [heap EXCEPT ![s.investments].university = 100]
    [] w = "h[0].totalScore = 0" ->
         [heap EXCEPT ![h[1]].totalScore = 0]
    [] OTHER -> heap

\* The write has an object to write to (it throws in the caller otherwise)
WriteApplies(w, s, h) ==
  CASE w \in {"s.entities[0].count = 0", "s.entities[0].skills.digitalAI.mean = 0"} ->
         heap[s.entities] # << >>
    [] w = "h[0].totalScore = 0" -> h # << >>
    [] OTHER -> TRUE

CallerWrites(w) ==
  /\ heldState # << >>
  /\ heldHistory # << >>
  /\ WriteApplies(w, heldState[1], heldHistory[1])
  /\ Called([op |-> "write", years |-> 0, write |-> w])
  /\ heap' = Written(w, heldState[1], heldHistory[1])
  /\ heldState' = IF w = "s.year = 99" THEN << [heldState[1] EXCEPT !.year = 99] >>
                  ELSE heldState
  /\ heldHistory' = IF w = "h.pop()"
                      THEN << SubSeq(heldHistory[1], 1, Len(heldHistory[1]) - 1) >>
                      ELSE heldHistory
  /\ UNCHANGED << state, history, rng >>

NextAlias ==
  \/ SimulateYear
  \/ GetState
  \/ GetHistory
  \/ GetResult
  \/ \E w \in Writes : CallerWrites(w)

SpecAlias == Init /\ [][NextAlias]_vars

\* ------------------------------------------------------------------------
\* A long run: simulateYear only, year after year
\* ------------------------------------------------------------------------

\* The number of years of a long run
MaxLongYears == 19

LongSeeds == {1, 12345, 20240401}

LongBaseYears == {2024, 2035}

LongConfigs ==
  [mode : {"cohort"}, seed : LongSeeds, baseYear : LongBaseYears,
   enableStochasticity : BOOLEAN]

InitLong == Constructed(LongConfigs)

SimulateNextYear ==
  /\ state.year < MaxLongYears
  /\ log' = Append(log, [op |-> "simulateYear", years |-> 1])
  /\ \E E \in {simulateYear(this)} : Become(E)
  /\ UNCHANGED << heldState, heldHistory, randomVars, workerVars, callVars, appVars >>

NextLong == SimulateNextYear

SpecLong == InitLong /\ [][NextLong]_vars

\* ------------------------------------------------------------------------
\* Two SeededRandom instances constructed from the same seed
\* ------------------------------------------------------------------------

\* The number of calls made on an instance and the times an instance is
\* constructed again
MaxScript == 2

MaxClock == 1

Instances == {"a", "b"}

RandomSeeds == {-1}

\* The calls of the caller
CallChoices ==
  { [method |-> "next"],
    [method |-> "range", min |-> 0, max |-> 10],
    [method |-> "int", min |-> 1, max |-> 6],
    [method |-> "gaussian", mean |-> 50, std |-> 10],
    [method |-> "truncatedGaussian", mean |-> 50, std |-> 10, min |-> 45, max |-> 55],
    [method |-> "truncatedGaussian", mean |-> 0, std |-> 1, min |-> 9, max |-> 10],
    [method |-> "shuffle", array |-> << 1, 2, 3 >>],
    [method |-> "pick", array |-> << 10, 20, 30 >>],
    [method |-> "chance", probability |-> 50] }

\* The call c on an instance whose this.seed is s
Invoke(s, c) ==
  CASE c.method = "next" -> [seed |-> next(s).seed, value |-> next(s).u]
    [] c.method = "range" -> range(s, c.min, c.max)
    [] c.method = "int" -> int(s, c.min, c.max)
    [] c.method = "gaussian" -> gaussian(s, c.mean, c.std)
    [] c.method = "truncatedGaussian" -> truncatedGaussian(s, c.mean, c.std, c.min, c.max)
    [] c.method = "shuffle" -> shuffle(s, c.array)
    [] c.method = "pick" -> pick(s, c.array)
    [] c.method = "chance" -> chance(s, c.probability)

NoEngine ==
  /\ heap = << >>
  /\ state = [year |-> 0]
  /\ history = << >>
  /\ rng = << 0, 0 >>
  /\ heldState = << >>
  /\ heldHistory = << >>
  /\ log = << >>

InitRandom ==
  /\ NoEngine
  /\ NoWorker
  /\ NoApp
  /\ NoCall
  /\ now = 0
  /\ givenSeed \in RandomSeeds
  /\ script = << >>
  /\ gen = [x \in Instances |->
              [seed |-> SeededRandomNew(givenSeed), made |-> 0, out |-> << >>]]

\* The next call of instance x: the one the script has at its position, or
\* any call when x is the first to get there
Call(x, c) ==
  /\ gen[x].made < MaxScript
  /\ IF gen[x].made < Len(script)
       THEN c = script[gen[x].made + 1] /\ script' = script
       ELSE script' = Append(script, c)
  /\ \E r \in {Invoke(gen[x].seed, c)} :
       gen' = [gen EXCEPT ![x] = [seed |-> r.seed, made |-> @.made + 1,
                                  out |-> Append(@.out, r.value)]]
  /\ UNCHANGED << now, givenSeed, engineVars, workerVars, callVars, appVars >>

\* new SeededRandom(givenSeed) once more, later, in place of instance x;
\* instance "a" is the one constructed once, "b" the one constructed repeatedly
Construct(x) ==
  /\ now < MaxClock
  /\ now' = now + 1
  /\ givenSeed' = givenSeed
  /\ gen' = [gen EXCEPT ![x] = [seed |-> SeededRandomNew(givenSeed)', made |-> 0,
                                out |-> << >>]]
  /\ UNCHANGED << script, engineVars, workerVars, callVars, appVars >>

NextRandom ==
  \/ \E x \in Instances : \E c \in CallChoices : Call(x, c)
  \/ Construct("b")

SpecRandom == InitRandom /\ [][NextRandom]_vars

\* ------------------------------------------------------------------------
\* The simulation worker: self.onmessage and what it posts
\* ------------------------------------------------------------------------

\* An optional field of an object: << >> for undefined, or << the value >>
Field(o, k) == IF k \in DOMAIN o THEN << o[k] >> ELSE << >>

\* { ...o, ...overrides }, o an optional object
Spread(o, overrides) ==
  LET base == IF o = << >> THEN << >> ELSE o[1]
  IN  [k \in DOMAIN base \union DOMAIN overrides |->
         IF k \in DOMAIN overrides THEN overrides[k] ELSE base[k]]

\* fullConfig of the constructor for a partial config, at time t of Date.now()
fullConfig(config, t) ==
  [mode                |-> IF "mode" \in DOMAIN config THEN config.mode ELSE "cohort",
   seed                |-> IF "seed" \in DOMAIN config THEN config.seed ELSE t,
   baseYear            |-> IF "baseYear" \in DOMAIN config THEN config.baseYear ELSE 2024,
   enableStochasticity |-> IF "enableStochasticity" \in DOMAIN config
                             THEN config.enableStochasticity ELSE FALSE]

\* The value of getResult() as postMessage copies it: every reference
\* replaced by a copy of the object it points to
SimulationResult(E) ==
  LET result == getResult(E)
      st     == result.finalState
  IN  [finalState |-> [st EXCEPT !.entities = E.heap[@],
                                 !.capability = E.heap[@],
                                 !.capabilityNormalized = E.heap[@],
                                 !.investments = E.heap[@],
                                 !.policyParams = E.heap[@],
                                 !.config = E.heap[@]],
       history    |-> [i \in 1..Len(result.history) |-> E.heap[result.history[i]]],
       statistics |-> result.statistics]

\* self.postMessage(message) in a worker W = [engine, posted, results]
postMessage(W, message) == [W EXCEPT !.posted = Append(@, message)]

RESULT(payload, id) == [type |-> "RESULT", payload |-> payload, id |-> id]

\* A PROGRESS message as it would be without the id
PROGRESSWithoutId(progress, total, id) ==
  [type |-> "PROGRESS", payload |-> [progress |-> progress, total |-> total],
   id |-> "undefined"]

PROGRESS(progress, total, id) ==
  [type |-> "PROGRESS", payload |-> [progress |-> progress, total |-> total], id |-> id]

ERROR(error, id) == [type |-> "ERROR", payload |-> [error |-> error], id |-> id]

\* ensureEngine as it would be if it kept an engine it has whatever the config
ensureEngineKeepingEngine(W, config, t) ==
  IF W.engine = << >>
    THEN [W EXCEPT !.engine = << constructor(fullConfig(Spread(config, << >>), t)) >>]
    ELSE W

\* ensureEngine(config), config optional, at time t
ensureEngine(W, config, t) ==
  IF W.engine = << >> \/ config # << >>
    THEN [W EXCEPT !.engine = << constructor(fullConfig(Spread(config, << >>), t)) >>]
    ELSE W

\* The two optional setter calls every case makes on its engine
applySettings(E, payload) ==
  LET E1 == IF "investments" \in DOMAIN payload
              THEN setInvestments(E, payload.investments) ELSE E
  IN  IF "policyParams" \in DOMAIN payload
        THEN setPolicyParams(E1, payload.policyParams) ELSE E1

\* case 'SIMULATE'
SIMULATE(W, payload, id, t) ==
  With(ensureEngine(W, Field(payload, "config"), t),
       LAMBDA W1 :
         With(simulateYear(applySettings(W1.engine[1], payload)),
              LAMBDA eng :
                postMessage([W1 EXCEPT !.engine = << eng >>],
                            RESULT(SimulationResult(eng), id))))

\* The loop of case 'SIMULATE_YEARS' as it would be if it reported every fifth
\* year only, without the test i === years - 1
RECURSIVE yearsLoopWithoutFinalProgress(_, _, _, _)
yearsLoopWithoutFinalProgress(W, n, years, id) ==
  IF n <= 0 THEN W
  ELSE With(yearsLoopWithoutFinalProgress(W, n - 1, years, id),
            LAMBDA W1 :
              With(simulateYear(W1.engine[1]),
                   LAMBDA eng :
                     LET i  == n - 1
                         W2 == [W1 EXCEPT !.engine = << eng >>]
                     IN  IF i % 5 = 0
                           THEN postMessage(W2, PROGRESS(i + 1, years, id))
                           ELSE W2))

\* The first n rounds of the loop of case 'SIMULATE_YEARS': round i + 1 is
\* simulateYear and a PROGRESS message when i % 5 = 0 or i = years - 1
RECURSIVE yearsLoop(_, _, _, _)
yearsLoop(W, n, years, id) ==
  IF n <= 0 THEN W
  ELSE With(yearsLoop(W, n - 1, years, id),
            LAMBDA W1 :
              With(simulateYear(W1.engine[1]),
                   LAMBDA eng :
                     LET i  == n - 1
                         W2 == [W1 EXCEPT !.engine = << eng >>]
                     IN  IF i % 5 = 0 \/ i = years - 1
                           THEN postMessage(W2, PROGRESS(i + 1, years, id))
                           ELSE W2))

\* case 'SIMULATE_YEARS'
SIMULATE_YEARS(W, payload, id, t) ==
  LET years == IF "years" \in DOMAIN payload THEN payload.years ELSE 10
  IN  With(ensureEngine(W, Field(payload, "config"), t),
           LAMBDA W1 :
             With(yearsLoop([W1 EXCEPT !.engine = << applySettings(W1.engine[1], payload) >>],
                            years, years, id),
                  LAMBDA W2 :
                    postMessage(W2, RESULT(SimulationResult(W2.engine[1]), id))))

\* The seed of iteration i as it would be if every iteration took the base seed
iterationSeedWithoutOffset(payload, i) ==
  IF "config" \in DOMAIN payload /\ "seed" \in DOMAIN payload.config
    THEN payload.config.seed ELSE 12345

\* (payload.config?.seed ?? 12345) + i
iterationSeed(payload, i) ==
  (IF "config" \in DOMAIN payload /\ "seed" \in DOMAIN payload.config
     THEN payload.config.seed ELSE 12345) + i

\* The first n rounds of the loop of case 'MONTE_CARLO': round i + 1 makes a
\* new engine, runs it for the years, pushes its result and posts a PROGRESS
\* message when i % 10 = 0 or i = iterations - 1
RECURSIVE iterationsLoop(_, _, _, _, _, _, _)
iterationsLoop(W, n, iterations, years, payload, id, t) ==
  IF n <= 0 THEN W
  ELSE With(iterationsLoop(W, n - 1, iterations, years, payload, id, t),
            LAMBDA W1 :
              LET i == n - 1
                  config == Spread(Field(payload, "config"),
                                   [seed |-> iterationSeed(payload, i),
                                    enableStochasticity |-> TRUE])
              IN  With(simulateYears(applySettings(constructor(fullConfig(config, t)),
                                                   payload), years),
                       LAMBDA eng :
                         LET W2 == [W1 EXCEPT !.results = Append(@, SimulationResult(eng))]
                         IN  IF i % 10 = 0 \/ i = iterations - 1
                               THEN postMessage(W2, PROGRESS(i + 1, iterations, id))
                               ELSE W2))

\* [...scores].sort((a, b) => a - b)
RECURSIVE sorted(_)
sorted(scores) ==
  IF scores = << >> THEN << >>
  ELSE LET k == CHOOSE k \in 1..Len(scores) : scores[k] = MinSeq(scores)
       IN  << scores[k] >>
             \o sorted(SubSeq(scores, 1, k - 1) \o SubSeq(scores, k + 1, Len(scores)))

\* percentile(p): sorted[Math.floor((p / 100) * (sorted.length - 1))]
percentile(scores, p) ==
  LET idx == (p * (Len(scores) - 1)) \div 100
  IN  IF idx + 1 \in DOMAIN scores THEN sorted(scores)[idx + 1] ELSE "undefined"

\* calculateMonteCarloStats(results): the scores in hundredths; 0 / 0 is NaN
calculateMonteCarloStats(rs) ==
  LET scores == [i \in 1..Len(rs) |-> rs[i].statistics.avgScore]
      n      == Len(scores)
      mean   == SumSeq(scores) \div n
  IN  [mean |-> IF n = 0 THEN "NaN" ELSE mean,
       std  |-> IF n = 0 THEN "NaN"
                ELSE Sqrt(SumSeq([i \in 1..n |-> (scores[i] - mean) * (scores[i] - mean)])
                          \div n),
       p5   |-> percentile(scores, 5),
       p25  |-> percentile(scores, 25),
       p50  |-> percentile(scores, 50),
       p75  |-> percentile(scores, 75),
       p95  |-> percentile(scores, 95)]

\* case 'MONTE_CARLO'
MONTE_CARLO(W, payload, id, t) ==
  LET iterations == IF "iterations" \in DOMAIN payload THEN payload.iterations ELSE 100
      years      == IF "years" \in DOMAIN payload THEN payload.years ELSE 30
  IN  With(iterationsLoop([W EXCEPT !.results = << >>], iterations, iterations, years,
                          payload, id, t),
           LAMBDA W1 :
             postMessage(W1, RESULT(Spread(Field(W1.results, 1),
                                           [monteCarloStats |->
                                              calculateMonteCarloStats(W1.results)]),
                                    id)))

\* case 'RESET'
RESET(W, payload, id, t) ==
  With(ensureEngine([W EXCEPT !.engine = << >>], Field(payload, "config"), t),
       LAMBDA W1 : postMessage(W1, RESULT(SimulationResult(W1.engine[1]), id)))

MessageTypes == {"SIMULATE", "SIMULATE_YEARS", "MONTE_CARLO", "RESET"}

\* self.onmessage for the event data e at time t.  Every case reads a field
\* of payload first, which throws when e has no payload; RESET has set
\* engine = null by then.
onmessage(W, e, t) ==
  LET id == e.id
  IN  IF e.type \in MessageTypes /\ "payload" \notin DOMAIN e
        THEN postMessage(IF e.type = "RESET" THEN [W EXCEPT !.engine = << >>] ELSE W,
                         ERROR("Cannot read properties of undefined", id))
      ELSE IF e.type = "SIMULATE" THEN SIMULATE(W, e.payload, id, t)
      ELSE IF e.type = "SIMULATE_YEARS" THEN SIMULATE_YEARS(W, e.payload, id, t)
      ELSE IF e.type = "MONTE_CARLO" THEN MONTE_CARLO(W, e.payload, id, t)
      ELSE IF e.type = "RESET" THEN RESET(W, e.payload, id, t)
      ELSE postMessage(W, ERROR("Unknown message type: " \o e.type, id))

\* setDeterministicMode(enabled, seed), seed optional: the new globalRng
setDeterministicMode(enabled, seed) ==
  IF enabled THEN << SeededRandomNew(IF seed = << >> THEN 12345 ELSE seed[1]) >>
  ELSE << >>

\* The number of requests the main thread posts
MaxRequests == 2

\* The id the main thread gives to its n-th request
RequestId(n) == "request-" \o ToString(n)

WorkerInvestments ==
  [university |-> 10, industry |-> 40, government |-> 20, research |-> 30]

\* The payloads the main thread sends, per message type
SimulatePayloads ==
  { << >>, [config |-> [seed |-> 7], investments |-> WorkerInvestments] }

SimulateYearsPayloads ==
  { [years |-> 3], [years |-> 2, policyParams |-> [phdEnrollment |-> 12]] }

MonteCarloPayloads ==
  { [iterations |-> 0, years |-> 1],
    [iterations |-> 2, years |-> 1, config |-> [seed |-> 7]],
    [iterations |-> 3, years |-> 1, investments |-> WorkerInvestments] }

ResetPayloads ==
  { [config |-> [seed |-> 7, enableStochasticity |-> TRUE]] }

UnknownTypes == {"PAUSE"}

InitWorker ==
  /\ NoEngine
  /\ NoInstances
  /\ NoWorker
  /\ NoApp
  /\ NoCall
  /\ NoApp

\* A message event with the data e0 and the next id of the main thread: the
\* whole of self.onmessage
Delivered(e0) ==
  /\ Len(received) < MaxRequests
  /\ now' = now + 1
  /\ \E e \in {Spread(<< e0 >>, [id |-> RequestId(Len(received) + 1)])} :
       \E W \in {onmessage([engine |-> engine, posted |-> << >>, results |-> << >>],
                           e, now + 1)} :
         /\ received' = Append(received, e)
         /\ engine' = W.engine
         /\ posted' = W.posted
         /\ results' = W.results
  /\ UNCHANGED << globalRng, givenSeed, script, gen, engineVars, callVars, appVars >>

PostSimulate(payload) ==
  /\ payload \in SimulatePayloads
  /\ Delivered([type |-> "SIMULATE", payload |-> payload])

PostSimulateYears(payload) ==
  /\ payload \in SimulateYearsPayloads
  /\ Delivered([type |-> "SIMULATE_YEARS", payload |-> payload])

PostMonteCarlo(payload) ==
  /\ payload \in MonteCarloPayloads
  /\ Delivered([type |-> "MONTE_CARLO", payload |-> payload])

PostReset(payload) ==
  /\ payload \in ResetPayloads
  /\ Delivered([type |-> "RESET", payload |-> payload])

\* A request of a type the switch does not know
PostUnknown(type) ==
  /\ type \notin MessageTypes
  /\ Delivered([type |-> type, payload |-> << >>])

\* A request of a known type that has no payload
PostWithoutPayload(type) ==
  /\ type \in MessageTypes
  /\ Delivered([type |-> type])

\* setDeterministicMode(enabled) of the code that shares the module
SetDeterministicMode(enabled) ==
  /\ Len(received) < MaxRequests
  /\ globalRng' = setDeterministicMode(enabled, << >>)
  /\ globalRng' # globalRng
  /\ UNCHANGED << engine, received, posted, results, randomVars, engineVars, callVars, appVars >>

NextWorker ==
  \/ \E payload \in SimulatePayloads : PostSimulate(payload)
  \/ \E payload \in SimulateYearsPayloads : PostSimulateYears(payload)
  \/ \E payload \in MonteCarloPayloads : PostMonteCarlo(payload)
  \/ \E payload \in ResetPayloads : PostReset(payload)
  \/ \E type \in UnknownTypes : PostUnknown(type)
  \/ \E type \in {"SIMULATE", "RESET"} : PostWithoutPayload(type)
  \/ \E enabled \in BOOLEAN : SetDeterministicMode(enabled)

SpecWorker == InitWorker /\ [][NextWorker]_vars

\* ------------------------------------------------------------------------
\* What the log says about a run
\* ------------------------------------------------------------------------

\* The call made last
last == IF log = << >> THEN [op |-> "constructor", years |-> 0] ELSE log[Len(log)]

\* The simulateYear calls made in the calls from..Len(log), directly or
\* inside simulateYears
YearsSince(from) == SumSeq([i \in 1..(Len(log) - from + 1) |-> log[from + i - 1].years])

calls == YearsSince(1)

resets == Cardinality({i \in 1..Len(log) : log[i].op = "reset"})

\* The position of the last reset, 0 when there is none
lastReset ==
  IF resets = 0 THEN 0
  ELSE CHOOSE i \in 1..Len(log) :
         log[i].op = "reset" /\ \A j \in (i + 1)..Len(log) : log[j].op # "reset"

\* Only simulateYear and simulateYears were called after the last reset
OnlySimulatedSinceReset ==
  \A j \in (lastReset + 1)..Len(log) : log[j].op \in {"simulateYear", "simulateYears"}

\* this.state of E with its objects in place of their references
StateOf(E) ==
  [year                 |-> E.state.year,
   entities             |-> E.heap[E.state.entities],
   capability           |-> E.heap[E.state.capability],
   capabilityNormalized |-> E.heap[E.state.capabilityNormalized],
   investments          |-> E.heap[E.state.investments],
   policyParams         |-> E.heap[E.state.policyParams],
   totalTalent          |-> E.state.totalTalent,
   successionScore      |-> E.state.successionScore,
   config               |-> E.heap[E.state.config]]

\* The entries of E's history and the cohorts of E, as values
HistoryOf(E) == [i \in 1..Len(E.history) |-> E.heap[E.history[i]]]

CohortsOf(E) == E.heap[E.state.entities]

\* ------------------------------------------------------------------------
\* Properties of the engine
\* ------------------------------------------------------------------------

\* C1: after construction and k simulateYear calls (made directly or inside
\* simulateYears) with no reset, the history has exactly k + 1 entries and
\* the first is the year-0 entry; simulateYears(n) as the first call on a
\* fresh engine leaves exactly n + 1 entries.
HistoryHasOneEntryPerYear ==
  /\ resets = 0 =>
       /\ Len(history) = calls + 1
       /\ heap[history[1]].year = 0
  /\ (Len(log) = 1 /\ last.op = "simulateYears") => Len(history) = last.years + 1

\* A run without reset that mixes both ways of calling: three simulated years
HistoryHasOneEntryPerYearWitness ==
  /\ resets = 0
  /\ calls = 3
  /\ last.op = "simulateYears"
  /\ last.years = 2
  /\ Len(history) = 4

\* C2 as claimed: after a reset followed by simulateYear calls only, the
\* cohorts and the history equal those of an engine freshly constructed with
\* the same configuration and run for as many years.
ResetEqualsFreshEngine ==
  (resets > 0 /\ OnlySimulatedSinceReset) =>
    With(simulateYears(constructor(heap[state.config]), state.year),
         LAMBDA F :
           /\ CohortsOf(this) = CohortsOf(F)
           /\ HistoryOf(this) = HistoryOf(F))

\* C2, amended: after a reset followed by simulateYear calls only, the cohorts
\* and the history equal those of a fresh engine of the same configuration
\* that was given the investments and policy parameters the reset engine
\* retains and was then run for as many years, except for the investments
\* recorded in the year-0 entry, which are the retained ones.
ResetEqualsFreshEngineWithRetainedSettings ==
  (resets > 0 /\ OnlySimulatedSinceReset) =>
    With(simulateYears(
           setPolicyParams(setInvestments(constructor(heap[state.config]),
                                          heap[state.investments]),
                           heap[state.policyParams]),
           state.year),
         LAMBDA F :
           /\ CohortsOf(this) = CohortsOf(F)
           /\ HistoryOf(this) =
                [HistoryOf(F) EXCEPT ![1].investments = heap[state.investments]])

\* A stochastic engine that was given other investments, reset and simulated
ResetEqualsFreshEngineWitness ==
  /\ Len(log) = 3
  /\ log[1].op = "setInvestments"
  /\ log[2].op = "reset"
  /\ log[3].op = "simulateYear"
  /\ heap[state.config].enableStochasticity
  /\ heap[state.investments] # DEFAULT_INVESTMENTS
  /\ Len(history) = 2

\* C3 as claimed: a write of the caller to a state or a history it got from
\* getState, getHistory or getResult changes neither the state nor the history
\* of the engine.
CallerWritesLeaveEngine ==
  [][last'.op = "write" => (StateOf(this)' = StateOf(this)
                            /\ HistoryOf(this)' = HistoryOf(this))]_vars

CohortCountsStayPositive ==
  \A i \in 1..Len(CohortsOf(this)) : CohortsOf(this)[i].count >= 1

HistoryIsAppendOnly ==
  [][last'.op \in {"simulateYear", "simulateYears", "setInvestments", "setPolicyParams"} =>
       /\ Len(history') >= Len(history)
       /\ SubSeq(HistoryOf(this)', 1, Len(history)) = HistoryOf(this)]_vars

\* A history of three entries with a setter called between the years
HistoryIsAppendOnlyWitness ==
  /\ Len(log) = 3
  /\ log[1].op = "simulateYear"
  /\ log[2].op = "setPolicyParams"
  /\ log[3].op = "simulateYear"
  /\ Len(history) = 3
  /\ HistoryOf(this)[3].year = 2

newest == received[Len(received)]

\* The base seed of a Monte Carlo request: the seed of its configuration, or
\* 12345 when it gives none
BaseSeed(payload) ==
  IF "config" \in DOMAIN payload /\ "seed" \in DOMAIN payload.config
    THEN payload.config.seed ELSE 12345

\* One engine of its own, constructed with the given seed and stochasticity
\* enabled from the configuration of the request, given the settings of the
\* request and run alone for its years
IndependentRun(payload, seed) ==
  LET config == [mode     |-> IF "config" \in DOMAIN payload /\ "mode" \in DOMAIN payload.config
                                THEN payload.config.mode ELSE "cohort",
                 seed     |-> seed,
                 baseYear |-> IF "config" \in DOMAIN payload
                                   /\ "baseYear" \in DOMAIN payload.config
                                THEN payload.config.baseYear ELSE 2024,
                 enableStochasticity |-> TRUE]
  IN  SimulationResult(simulateYears(applySettings(constructor(config), payload),
                                     payload.years))

\* C9: after the worker has handled a MONTE_CARLO request with iterations = k,
\* its results array holds exactly k samples, and sample i (from 0) is the
\* result of one engine of its own seeded baseSeed + i and run for the years
\* of the request, whatever the worker handled before, whatever engine it
\* keeps, whatever the global generator is and however many other runs the
\* batch has.
MonteCarloSamplesAreIndependentRuns ==
  (received # << >> /\ newest.type = "MONTE_CARLO") =>
    /\ Len(results) = newest.payload.iterations
    /\ \A i \in 1..Len(results) :
         results[i] = IndependentRun(newest.payload, BaseSeed(newest.payload) + (i - 1))

\* A batch of three runs, all different, handled by a worker that keeps an
\* engine from an earlier SIMULATE request
MonteCarloSamplesAreIndependentRunsWitness ==
  /\ Len(received) = 2
  /\ received[1].type = "SIMULATE"
  /\ engine # << >>
  /\ newest.type = "MONTE_CARLO"
  /\ Len(results) = 3
  /\ results[1] # results[2]
  /\ results[2] # results[3]
  /\ results[1] # results[3]
  /\ results[3].finalState.config.seed = 12347

\* C10: every message the worker has posted while handling the newest
\* request (PROGRESS, RESULT or ERROR) carries the id of that request.
EveryMessageCarriesRequestId ==
  \A k \in 1..Len(posted) : posted[k].id = newest.id

\* The second request, SIMULATE_YEARS for 3 years, answered by the PROGRESS
\* messages of the first and the last year and the RESULT, after a first
\* request answered by an ERROR
EveryMessageCarriesRequestIdWitness ==
  /\ Len(received) = 2
  /\ "payload" \notin DOMAIN received[1]
  /\ newest.type = "SIMULATE_YEARS"
  /\ Len(posted) = 3
  /\ posted[1].type = "PROGRESS" /\ posted[1].payload.progress = 1
  /\ posted[2].type = "PROGRESS" /\ posted[2].payload.progress = 3
  /\ posted[3].type = "RESULT"
  /\ posted[3].id = "request-2"

\* ------------------------------------------------------------------------
\* exportToJSON and importFromJSON
\* ------------------------------------------------------------------------

\* An export is the object JSON.parse returns: per key the JSON text of its
\* value, "undefined" for a key the object does not have; checksum is << >>
\* when absent and << the stored string >> otherwise.
EXPORT_VERSION == "\"4.0.0\""

ExportKeys == << "version", "timestamp", "seed", "state", "history" >>

\* The UTF-16 code units of the pieces JSON.stringify writes
charCodes(text) ==
  CASE text = "{" -> << 123 >>
    [] text = "}" -> << 125 >>
    [] text = "," -> << 44 >>
    [] text = "\"version\":" -> << 34, 118, 101, 114, 115, 105, 111, 110, 34, 58 >>
    [] text = "\"timestamp\":" -> << 34, 116, 105, 109, 101, 115, 116, 97, 109, 112, 34, 58 >>
    [] text = "\"seed\":" -> << 34, 115, 101, 101, 100, 34, 58 >>
    [] text = "\"state\":" -> << 34, 115, 116, 97, 116, 101, 34, 58 >>
    [] text = "\"history\":" -> << 34, 104, 105, 115, 116, 111, 114, 121, 34, 58 >>
    [] text = "\"4.0.0\"" -> << 34, 52, 46, 48, 46, 48, 34 >>
    [] text = "\"\"" -> << 34, 34 >>
    [] text = "0" -> << 48 >>
    [] text = "null" -> << 110, 117, 108, 108 >>
    [] text = "{\"year\":0}" -> << 123, 34, 121, 101, 97, 114, 34, 58, 48, 125 >>
    [] text = "[]" -> << 91, 93 >>
    [] text = "[{\"year\":0}]" -> << 91, 123, 34, 121, 101, 97, 114, 34, 58, 48, 125, 93 >>
    [] text = "\"2024-01-01T00:00:00.000Z\"" -> << 34, 50, 48, 50, 52, 45, 48, 49, 45, 48, 49, 84, 48, 48, 58, 48, 48, 58, 48, 48, 46, 48, 48, 48, 90, 34 >>
    [] text = "12345" -> << 49, 50, 51, 52, 53 >>

\* "key": for a key of the export
KeyText(key) == "\"" \o key \o "\":"

\* The code units of the first n keys of JSON.stringify(data), keys without a
\* value left out, a comma before every member but the first
RECURSIVE membersUpTo(_, _)
membersUpTo(data, n) ==
  IF n = 0 THEN << >>
  ELSE LET before == membersUpTo(data, n - 1)
           key    == ExportKeys[n]
       IN  IF data[key] = "undefined" THEN before
           ELSE before \o (IF before = << >> THEN << >> ELSE charCodes(","))
                       \o charCodes(KeyText(key)) \o charCodes(data[key])

\* JSON.stringify(dataWithoutChecksum)
stringify(data) ==
  charCodes("{") \o membersUpTo(data, Len(ExportKeys)) \o charCodes("}")

\* 31^n in 32 bits
RECURSIVE pow31(_)
pow31(n) ==
  IF n = 0 THEN << 0, 1 >>
  ELSE With(pow31(n \div 2),
            LAMBDA h : imul(imul(h, h), IF n % 2 = 1 THEN << 0, 31 >> ELSE << 0, 1 >>))

\* The hash loop of calculateChecksum over the code units lo..hi, from hash 0:
\* ((hash << 5) - hash) + char, kept to 32 bits by hash & hash.  The loop
\* over lo..hi is the loop over lo..mid followed by the loop over mid+1..hi
\* from the hash reached, which multiplies that hash by 31 once per unit.
RECURSIVE hashLoop(_, _, _)
hashLoop(codes, lo, hi) ==
  IF lo > hi THEN << 0, 0 >>
  ELSE IF lo = hi THEN Add32(imul(<< 0, 0 >>, << 0, 31 >>), << 0, codes[lo] >>)
  ELSE LET mid == (lo + hi) \div 2
       IN  With(hashLoop(codes, lo, mid),
                LAMBDA first :
                  Add32(imul(first, pow31(hi - mid)), hashLoop(codes, mid + 1, hi)))

\* The four hexadecimal digits of a 16-bit number
Hex4(n) == << n \div 4096, (n \div 256) % 16, (n \div 16) % 16, n % 16 >>

\* calculateChecksum(data) where crypto.subtle is not there:
\* Math.abs(hash).toString(16).padStart(8, '0'), as its eight digits
calculateChecksum(codes) ==
  With(hashLoop(codes, 1, Len(codes)),
       LAMBDA hash :
         LET abs == IF hash[1] >= 32768 THEN Add32(Xor32(hash, << 65535, 65535 >>), << 0, 1 >>)
                    ELSE hash
         IN  Hex4(abs[1]) \o Hex4(abs[2]))

\* exportToJSON(state, history) at the given time, state and history as their
\* JSON text: the object the returned text parses to
exportToJSON(stateText, historyText, seedText, timestamp) ==
  LET dataWithoutChecksum == [version   |-> EXPORT_VERSION,
                              timestamp |-> timestamp,
                              seed      |-> seedText,
                              state     |-> stateText,
                              history   |-> historyText]
  IN  [data     |-> dataWithoutChecksum,
       checksum |-> << calculateChecksum(stringify(dataWithoutChecksum)) >>]

\* !value for the JSON text of a value
Falsy(text) == text \in {"undefined", "null", "false", "0", "\"\""}

\* importFromJSON as it would be if a checksum mismatch were an error
importFromJSONRejectingMismatch(e) ==
  IF Falsy(e.data.version)
    THEN [threw |-> "Invalid export format: missing version", warned |-> FALSE,
          value |-> << >>]
  ELSE IF e.checksum # << calculateChecksum(stringify(e.data)) >>
    THEN [threw |-> "Checksum mismatch", warned |-> FALSE, value |-> << >>]
  ELSE IF Falsy(e.data.state) \/ Falsy(e.data.history)
    THEN [threw |-> "Invalid export format: missing state or history",
          warned |-> FALSE, value |-> << >>]
  ELSE [threw |-> "", warned |-> FALSE, value |-> << e >>]

\* importFromJSON(json) for the object e the text parses to: what it throws
\* ("" when it returns), whether it warned, and what it returns
importFromJSON(e) ==
  IF Falsy(e.data.version)
    THEN [threw |-> "Invalid export format: missing version", warned |-> FALSE,
          value |-> << >>]
  ELSE LET warned == e.checksum # << calculateChecksum(stringify(e.data)) >>
       IN  IF Falsy(e.data.state) \/ Falsy(e.data.history)
             THEN [threw |-> "Invalid export format: missing state or history",
                   warned |-> warned, value |-> << >>]
           ELSE [threw |-> "", warned |-> warned, value |-> << e >>]

\* The objects a caller gives to importFromJSON: an export of a state and a
\* history, or one with fields removed or replaced, its checksum removed,
\* left as first exported, or calculated again after the change
VersionTexts == {"undefined", EXPORT_VERSION, "\"\"", "0"}

StateTexts == {"undefined", "{\"year\":0}", "null"}

HistoryTexts == {"undefined", "[]", "[{\"year\":0}]", "0"}

Exported == exportToJSON("{\"year\":0}", "[]", "12345", "\"2024-01-01T00:00:00.000Z\"")

Payloads ==
  { [data     |-> d,
     checksum |-> IF kind = "own" THEN << calculateChecksum(stringify(d)) >>
                  ELSE IF kind = "exported" THEN Exported.checksum
                  ELSE << >>] :
      d \in { [Exported.data EXCEPT !.version = v, !.state = st, !.history = h] :
                v \in VersionTexts, st \in StateTexts, h \in HistoryTexts },
      kind \in {"own", "exported", "absent"} }

InitImport ==
  /\ NoEngine
  /\ NoInstances
  /\ NoWorker
  /\ NoApp
  /\ args \in Payloads
  /\ ret = << >>

\* await importFromJSON(json)
Import ==
  /\ ret = << >>
  /\ ret' = << importFromJSON(args) >>
  /\ UNCHANGED << args, engineVars, randomVars, workerVars, appVars >>

NextImport == Import

SpecImport == InitImport /\ [][NextImport]_vars

\* C11 as stated: importFromJSON throws exactly when the object has no
\* version, no state or no history.
ImportFailsExactlyWhenFieldAbsent ==
  ret # << >> =>
    (ret[1].threw # ""
       <=> \/ args.data.version = "undefined"
           \/ args.data.state = "undefined"
           \/ args.data.history = "undefined")

\* C11: importFromJSON throws exactly when version, state or history is
\* absent or falsy (null, false, 0 or ""); when it returns, it returns the
\* object as given, checksum included, and it has warned exactly when the
\* stored checksum is not the one calculated from the rest of the object.
ImportFailsExactlyWhenFieldFalsy ==
  ret # << >> =>
    /\ ret[1].threw # ""
         <=> \/ Falsy(args.data.version)
             \/ Falsy(args.data.state)
             \/ Falsy(args.data.history)
    /\ ret[1].threw = "" =>
         /\ ret[1].value = << args >>
         /\ ret[1].warned <=> args.checksum # << calculateChecksum(stringify(args.data)) >>

\* An export whose history was replaced after the checksum was calculated:
\* returned as given, with a warning
ImportFailsExactlyWhenFieldFalsyWitness ==
  /\ ret # << >>
  /\ args.data.history = "[{\"year\":0}]"
  /\ args.checksum = Exported.checksum
  /\ ret[1].threw = ""
  /\ ret[1].warned
  /\ ret[1].value = << args >>

\* ------------------------------------------------------------------------
\* The arithmetic of a JavaScript number (IEEE 754 binary64, round to
\* nearest, ties to even).  A finite number is [neg, man, exp] of value
\* (-1)^neg * man * 2^exp; man is zero or has exactly 53 bits and is written
\* as a sequence of 15-bit digits, least significant first.  Subnormal
\* numbers, infinities and NaN are not represented: no call below reaches
\* them.
\* ------------------------------------------------------------------------

Digit == 32768

RECURSIVE TwoTo(_)
TwoTo(n) == IF n = 0 THEN 1 ELSE 2 * TwoTo(n - 1)

RECURSIVE BitsOf(_)
BitsOf(k) == IF k = 0 THEN 0 ELSE 1 + BitsOf(k \div 2)

\* A natural number without its zero digits at the most significant end
RECURSIVE NatTrim(_)
NatTrim(a) ==
  IF a # << >> /\ a[Len(a)] = 0 THEN NatTrim(SubSeq(a, 1, Len(a) - 1)) ELSE a

\* The digits of a natural number below 2^31
RECURSIVE NatOf(_)
NatOf(k) == IF k = 0 THEN << >> ELSE << k % Digit >> \o NatOf(k \div Digit)

DigitAt(a, i) == IF i <= Len(a) THEN a[i] ELSE 0

\* -1, 0 or 1 as a < b, a = b or a > b
RECURSIVE NatCmpFrom(_, _, _)
NatCmpFrom(a, b, i) ==
  IF i = 0 THEN 0
  ELSE IF DigitAt(a, i) < DigitAt(b, i) THEN -1
  ELSE IF DigitAt(a, i) > DigitAt(b, i) THEN 1
  ELSE NatCmpFrom(a, b, i - 1)

NatCmp(a, b) == NatCmpFrom(a, b, IF Len(a) > Len(b) THEN Len(a) ELSE Len(b))

RECURSIVE NatAddFrom(_, _, _, _)
NatAddFrom(a, b, i, carry) ==
  IF i > Len(a) /\ i > Len(b) THEN (IF carry = 0 THEN << >> ELSE << carry >>)
  ELSE << (DigitAt(a, i) + DigitAt(b, i) + carry) % Digit >>
       \o NatAddFrom(a, b, i + 1, (DigitAt(a, i) + DigitAt(b, i) + carry) \div Digit)

NatAdd(a, b) == NatAddFrom(a, b, 1, 0)

\* a - b for a >= b
RECURSIVE NatSubFrom(_, _, _, _)
NatSubFrom(a, b, i, borrow) ==
  IF i > Len(a) THEN << >>
  ELSE << (a[i] - DigitAt(b, i) - borrow) % Digit >>
       \o NatSubFrom(a, b, i + 1, IF a[i] - DigitAt(b, i) - borrow < 0 THEN 1 ELSE 0)

NatSub(a, b) == NatTrim(NatSubFrom(a, b, 1, 0))

\* a * k for k in 0..Digit
RECURSIVE NatMulSmallFrom(_, _, _, _)
NatMulSmallFrom(a, k, i, carry) ==
  IF i > Len(a) THEN (IF carry = 0 THEN << >> ELSE << carry >>)
  ELSE << (a[i] * k + carry) % Digit >>
       \o NatMulSmallFrom(a, k, i + 1, (a[i] * k + carry) \div Digit)

NatMulSmall(a, k) == IF k = 0 THEN << >> ELSE NatMulSmallFrom(a, k, 1, 0)

\* a * Digit^n
NatShiftDigits(a, n) == IF a = << >> THEN a ELSE [i \in 1..n |-> 0] \o a

RECURSIVE NatMulFrom(_, _, _)
NatMulFrom(a, b, i) ==
  IF i > Len(b) THEN << >>
  ELSE NatAdd(NatShiftDigits(NatMulSmall(a, b[i]), i - 1), NatMulFrom(a, b, i + 1))

NatMul(a, b) == NatMulFrom(a, b, 1)

\* a * 2^n
NatShl(a, n) == NatShiftDigits(NatMulSmall(a, TwoTo(n % 15)), n \div 15)

\* a \div 2^n
NatShr(a, n) ==
  LET rest == IF n \div 15 >= Len(a) THEN << >> ELSE SubSeq(a, n \div 15 + 1, Len(a))
      low  == TwoTo(n % 15)
      high == TwoTo(15 - (n % 15))
  IN  NatTrim([i \in 1..Len(rest) |->
                 rest[i] \div low + (DigitAt(rest, i + 1) % low) * high])

NatBits(a) == IF a = << >> THEN 0 ELSE 15 * (Len(a) - 1) + BitsOf(a[Len(a)])

NatOdd(a) == a # << >> /\ a[1] % 2 = 1

\* The largest q in lo..hi with b * q <= r, given b * lo <= r
RECURSIVE QuotDigit(_, _, _, _)
QuotDigit(r, b, lo, hi) ==
  IF lo = hi THEN lo
  ELSE IF NatCmp(NatMulSmall(b, (lo + hi + 1) \div 2), r) <= 0
         THEN QuotDigit(r, b, (lo + hi + 1) \div 2, hi)
         ELSE QuotDigit(r, b, lo, (lo + hi + 1) \div 2 - 1)

\* Long division of a by b from digit i down: the quotient and the remainder
RECURSIVE NatDivFrom(_, _, _, _, _)
NatDivFrom(a, b, i, rem, quot) ==
  IF i = 0 THEN [quot |-> NatTrim(quot), rem |-> rem]
  ELSE With(NatAdd(NatShiftDigits(rem, 1), NatOf(a[i])),
         LAMBDA r1 :
           With(QuotDigit(r1, b, 0, Digit - 1),
             LAMBDA q : NatDivFrom(a, b, i - 1, NatSub(r1, NatMulSmall(b, q)),
                                   << q >> \o quot)))

NatDivMod(a, b) == NatDivFrom(a, b, Len(a), << >>, << >>)

Zero64 == [neg |-> FALSE, man |-> << >>, exp |-> 0]

\* (-1)^neg * n * 2^e, or a value between it and the next number of larger
\* magnitude when sticky, rounded to 53 bits
RoundToNearestEven(neg, n, e, sticky) ==
  IF n = << >> THEN Zero64
  ELSE IF NatBits(n) <= 53
    THEN [neg |-> neg, man |-> NatShl(n, 53 - NatBits(n)), exp |-> e - (53 - NatBits(n))]
  ELSE LET k  == NatBits(n) - 53
           q  == NatShr(n, k)
           c  == NatCmp(NatSub(n, NatShl(q, k)), NatShl(<< 1 >>, k - 1))
           q1 == IF c > 0 \/ (c = 0 /\ (sticky \/ NatOdd(q)))
                   THEN NatAdd(q, << 1 >>) ELSE q
       IN  IF NatBits(q1) = 54
             THEN [neg |-> neg, man |-> NatShr(q1, 1), exp |-> e + k + 1]
             ELSE [neg |-> neg, man |-> q1, exp |-> e + k]

\* The number k * 2^e of an integer k
Dyadic(k, e) == RoundToNearestEven(k < 0, NatOf(IF k < 0 THEN -k ELSE k), e, FALSE)

\* The number of an integer literal
Number(k) == Dyadic(k, 0)

\* x + y
NumAdd(x, y) ==
  IF x.man = << >> THEN y
  ELSE IF y.man = << >> THEN x
  ELSE LET e == IF x.exp < y.exp THEN x.exp ELSE y.exp
           a == NatShl(x.man, x.exp - e)
           b == NatShl(y.man, y.exp - e)
       IN  IF x.neg = y.neg THEN RoundToNearestEven(x.neg, NatAdd(a, b), e, FALSE)
           ELSE IF NatCmp(a, b) = 0 THEN Zero64
           ELSE IF NatCmp(a, b) > 0 THEN RoundToNearestEven(x.neg, NatSub(a, b), e, FALSE)
           ELSE RoundToNearestEven(y.neg, NatSub(b, a), e, FALSE)

\* x - y
NumSub(x, y) == NumAdd(x, [y EXCEPT !.neg = ~y.neg])

\* x * y
NumMul(x, y) ==
  IF x.man = << >> \/ y.man = << >> THEN Zero64
  ELSE RoundToNearestEven(x.neg # y.neg, NatMul(x.man, y.man), x.exp + y.exp, FALSE)

\* x / y for y other than zero
NumDiv(x, y) ==
  IF x.man = << >> THEN Zero64
  ELSE With(NatDivMod(NatShl(x.man, 55), y.man),
         LAMBDA d : RoundToNearestEven(x.neg # y.neg, d.quot, x.exp - y.exp - 55,
                                       d.rem # << >>))

\* The largest q in lo..hi with (root + q * Digit^pos)^2 <= n, given that lo
\* is such a q
RECURSIVE RootDigit(_, _, _, _, _)
RootDigit(n, root, pos, lo, hi) ==
  IF lo = hi THEN lo
  ELSE With(NatAdd(root, NatShiftDigits(NatOf((lo + hi + 1) \div 2), pos)),
         LAMBDA c : IF NatCmp(NatMul(c, c), n) <= 0
                      THEN RootDigit(n, root, pos, (lo + hi + 1) \div 2, hi)
                      ELSE RootDigit(n, root, pos, lo, (lo + hi + 1) \div 2 - 1))

\* The integer square root of n, digit by digit from position pos down
RECURSIVE NatSqrtFrom(_, _, _)
NatSqrtFrom(n, root, pos) ==
  IF pos < 0 THEN root
  ELSE With(RootDigit(n, root, pos, 0, Digit - 1),
         LAMBDA q : NatSqrtFrom(n, NatAdd(root, NatShiftDigits(NatOf(q), pos)), pos - 1))

NatSqrt(n) == NatSqrtFrom(n, << >>, (Len(n) + 1) \div 2 - 1)

\* Math.sqrt(x) for x >= 0
NumSqrt(x) ==
  IF x.man = << >> THEN Zero64
  ELSE With(IF (x.exp - 57) % 2 = 0 THEN 57 ELSE 58,
         LAMBDA shift :
           With(NatSqrt(NatShl(x.man, shift)),
             LAMBDA root : RoundToNearestEven(FALSE, root, (x.exp - shift) \div 2,
                                              NatMul(root, root) # NatShl(x.man, shift))))

\* x > 0
NumPositive(x) == x.man # << >> /\ ~x.neg

\* -1, 0 or 1 as x < y, x = y or x > y
NumCmp(x, y) ==
  With(NumSub(x, y),
    LAMBDA d : IF d.man = << >> THEN 0 ELSE IF d.neg THEN -1 ELSE 1)

\* The integer of a natural number below 2^31
RECURSIVE NatToInt(_)
NatToInt(a) == IF a = << >> THEN 0 ELSE a[1] + Digit * NatToInt(Tail(a))

\* Math.round(x) for |x| < 2^31: the nearest integer, a tie towards +Infinity
MathRound(x) ==
  IF x.man = << >> THEN 0
  ELSE IF x.exp >= 0
    THEN (IF x.neg THEN -1 ELSE 1) * NatToInt(NatShl(x.man, x.exp))
  ELSE With(NatShr(x.man, -x.exp),
         LAMBDA whole :
           With(NatCmp(NatShl(NatSub(x.man, NatShl(whole, -x.exp)), 1),
                       NatShl(<< 1 >>, -x.exp)),
             LAMBDA half : IF x.neg THEN -(NatToInt(whole) + (IF half > 0 THEN 1 ELSE 0))
                           ELSE NatToInt(whole) + (IF half >= 0 THEN 1 ELSE 0)))

\* x === y
NumEq(x, y) ==
  /\ x.man = y.man
  /\ x.man # << >> => (x.neg = y.neg /\ x.exp = y.exp)

\* |x| < 2^n
NumBelowTwoTo(x, n) == x.man = << >> \/ x.exp + 53 <= n

\* ------------------------------------------------------------------------
\* Statistical functions (math/statistics.ts).  The deviation score
\* conversions compute with JavaScript numbers; in the other functions
\* numbers are integers in hundredths and a quotient is rounded down to the
\* hundredth.
\* ------------------------------------------------------------------------

\* weightedMean(values, weights): what it throws ("" when it returns) and
\* what it returns
weightedMean(values, weights) ==
  IF Len(values) # Len(weights) \/ Len(values) = 0
    THEN [threw |-> "Values and weights must have same non-zero length", value |-> 0]
  ELSE LET sum         == SumSeq([i \in 1..Len(values) |-> values[i] * weights[i]])
           totalWeight == SumSeq(weights)
       IN  [threw |-> "", value |-> IF totalWeight > 0 THEN sum \div totalWeight ELSE 0]

\* pooledStd(distributions): within-group plus between-group variance
pooledStd(distributions) ==
  IF Len(distributions) = 0 THEN 0
  ELSE LET n         == Len(distributions)
           totalN    == SumSeq([i \in 1..n |-> distributions[i].n])
           grandMean == IF totalN > 0
                          THEN SumSeq([i \in 1..n |-> distributions[i].mean
                                                        * distributions[i].n]) \div totalN
                          ELSE 0
           sumSquares ==
             SumSeq([i \in 1..n |->
                       (distributions[i].std * distributions[i].std
                        + (distributions[i].mean - grandMean)
                          * (distributions[i].mean - grandMean)) * distributions[i].n])
       IN  IF totalN > 0 THEN Sqrt(sumSquares \div totalN) ELSE 0

\* toDeviationScore(value, mean, std): DEVIATION_BASE + DEVIATION_SCALE * z
\* with z = (value - mean) / std, and DEVIATION_BASE when std === 0
toDeviationScore(value, mean, std) ==
  IF NumEq(std, Zero64) THEN Number(DEVIATION_BASE)
  ELSE NumAdd(Number(DEVIATION_BASE),
              NumMul(Number(DEVIATION_SCALE), NumDiv(NumSub(value, mean), std)))

\* fromDeviationScore without the multiplication by std
fromDeviationScoreWithoutStd(deviation, mean, std) ==
  NumAdd(mean, NumDiv(NumSub(deviation, Number(DEVIATION_BASE)), Number(DEVIATION_SCALE)))

\* fromDeviationScore(deviation, mean, std): mean + z * std with
\* z = (deviation - DEVIATION_BASE) / DEVIATION_SCALE
fromDeviationScore(deviation, mean, std) ==
  NumAdd(mean,
         NumMul(NumDiv(NumSub(deviation, Number(DEVIATION_BASE)), Number(DEVIATION_SCALE)),
                std))

\* aggregateDistributions(distributions): the weighted mean and the pooled
\* std, std || 10
aggregateDistributions(distributions) ==
  IF Len(distributions) = 0 THEN [mean |-> 0, std |-> 10 * 100]
  ELSE LET n           == Len(distributions)
           totalWeight == SumSeq([i \in 1..n |-> distributions[i].weight])
           mean        == IF totalWeight > 0
                            THEN SumSeq([i \in 1..n |-> distributions[i].distribution.mean
                                                          * distributions[i].weight])
                                 \div totalWeight
                            ELSE 0
           varianceSum ==
             SumSeq([i \in 1..n |->
                       (distributions[i].distribution.std * distributions[i].distribution.std
                        + (distributions[i].distribution.mean - mean)
                          * (distributions[i].distribution.mean - mean))
                       * distributions[i].weight])
           std         == IF totalWeight > 0 THEN Sqrt(varianceSum \div totalWeight)
                          ELSE 10 * 100
       IN  [mean |-> mean, std |-> IF std = 0 THEN 10 * 100 ELSE std]

\* percentile(p) of summarize: linear between the two nearest ranks
summaryPercentile(values, p) ==
  LET idx100 == p * (Len(values) - 1)
      lower  == idx100 \div 100
      part   == idx100 % 100
  IN  IF part = 0 THEN sorted(values)[lower + 1]
      ELSE (sorted(values)[lower + 1] * (100 - part) + sorted(values)[lower + 2] * part)
           \div 100

\* summarize(values)
summarize(values) ==
  IF Len(values) = 0
    THEN [mean |-> 0, std |-> 0, min |-> 0, max |-> 0, median |-> 0,
          p5 |-> 0, p25 |-> 0, p75 |-> 0, p95 |-> 0]
  ELSE LET n        == Len(values)
           mean     == SumSeq(values) \div n
           variance == SumSeq([i \in 1..n |-> (values[i] - mean) * (values[i] - mean)])
                       \div n
       IN  [mean |-> mean, std |-> Sqrt(variance),
            min |-> sorted(values)[1], max |-> sorted(values)[n],
            median |-> summaryPercentile(values, 50),
            p5 |-> summaryPercentile(values, 5), p25 |-> summaryPercentile(values, 25),
            p75 |-> summaryPercentile(values, 75), p95 |-> summaryPercentile(values, 95)]

\* The calls a caller of the statistical functions and of calculateCESValue
\* makes, the degenerate ones (no elements, no weight, no spread) among them
Dist(mean, std, n) == [mean |-> mean, std |-> std, n |-> n]

Weighted(mean, std, weight) == [distribution |-> [mean |-> mean, std |-> std], weight |-> weight]

StatsCalls ==
  { [op |-> "weightedMean", values |-> v, weights |-> w] :
      v \in { << >>, << 5000 >>, << 4000, 6000 >> },
      w \in { << >>, << 0 >>, << 1 >>, << 0, 0 >>, << 1, 3 >> } }
  \union
  { [op |-> "pooledStd", distributions |-> d] :
      d \in { << >>, << Dist(5000, 1000, 0) >>, << Dist(5000, 0, 5) >>,
              << Dist(4000, 1000, 2), Dist(6000, 1000, 2) >>,
              << Dist(4000, 0, 0), Dist(6000, 0, 0) >> } }
  \union
  { [op |-> "toDeviationScore", value |-> v, mean |-> m, std |-> sd] :
      v \in {Number(0), Number(50), Number(70)}, m \in {Number(50), Number(60)},
      sd \in {Number(0), Number(10), Number(12)} }
  \union
  { [op |-> "aggregateDistributions", distributions |-> d] :
      d \in { << >>, << Weighted(5000, 1000, 0) >>, << Weighted(5000, 0, 2) >>,
              << Weighted(4000, 1000, 1), Weighted(6000, 1000, 3) >>,
              << Weighted(4000, 1000, 0), Weighted(6000, 1000, 0) >> } }
  \union
  { [op |-> "summarize", values |-> v] :
      v \in { << >>, << 5000 >>, << 5000, 5000 >>, << 3000, 1000 >>,
              << 1000, 9000, 3000 >> } }
  \union
  { [op |-> "calculateCESValue", inputs |-> v, weights |-> w] :
      v \in { << >>, << 0 >>, << 50 * Unit >>, << 40 * Unit, 60 * Unit >> },
      w \in { << >>, << 0 >>, << 2 >>, << 0, 0 >>, << 1, 1 >> } }

InitStats ==
  /\ NoEngine
  /\ NoInstances
  /\ NoWorker
  /\ NoApp
  /\ args \in StatsCalls
  /\ ret = << >>

\* The call returns v
Returns(v) ==
  /\ ret = << >>
  /\ ret' = << [threw |-> "", value |-> v] >>
  /\ UNCHANGED << args, engineVars, randomVars, workerVars, appVars >>

CallWeightedMean ==
  /\ args.op = "weightedMean"
  /\ ret = << >>
  /\ ret' = << weightedMean(args.values, args.weights) >>
  /\ UNCHANGED << args, engineVars, randomVars, workerVars, appVars >>

CallPooledStd ==
  /\ args.op = "pooledStd"
  /\ Returns(pooledStd(args.distributions))

CallToDeviationScore ==
  /\ args.op = "toDeviationScore"
  /\ Returns(toDeviationScore(args.value, args.mean, args.std))

CallAggregateDistributions ==
  /\ args.op = "aggregateDistributions"
  /\ Returns(aggregateDistributions(args.distributions))

CallSummarize ==
  /\ args.op = "summarize"
  /\ Returns(summarize(args.values))

CallCalculateCESValue ==
  /\ args.op = "calculateCESValue"
  /\ Returns(calculateCESValue(args.inputs, args.weights))

NextStats ==
  \/ CallWeightedMean
  \/ CallPooledStd
  \/ CallToDeviationScore
  \/ CallAggregateDistributions
  \/ CallSummarize
  \/ CallCalculateCESValue

SpecStats == InitStats /\ [][NextStats]_vars

\* The degenerate calls: no elements, no total weight, or a zero standard
\* deviation to divide by
Degenerate(call) ==
  CASE call.op = "weightedMean" ->
         call.values = << >> \/ (Len(call.values) = Len(call.weights)
                                 /\ SumSeq(call.weights) = 0)
    [] call.op = "pooledStd" ->
         SumSeq([i \in 1..Len(call.distributions) |-> call.distributions[i].n]) = 0
    [] call.op = "toDeviationScore" -> NumEq(call.std, Zero64)
    [] call.op = "aggregateDistributions" ->
         SumSeq([i \in 1..Len(call.distributions) |-> call.distributions[i].weight]) = 0
    [] call.op = "summarize" -> call.values = << >>
    [] call.op = "calculateCESValue" ->
         call.inputs = << >> \/ (Len(call.inputs) = Len(call.weights)
                                 /\ SumSeq(call.weights) = 0)

\* The fallback value of each function
Fallback(call) ==
  CASE call.op = "weightedMean" -> 0
    [] call.op = "pooledStd" -> 0
    [] call.op = "toDeviationScore" -> Number(50)
    [] call.op = "aggregateDistributions" -> [mean |-> 0, std |-> 10 * 100]
    [] call.op = "summarize" ->
         [mean |-> 0, std |-> 0, min |-> 0, max |-> 0, median |-> 0,
          p5 |-> 0, p25 |-> 0, p75 |-> 0, p95 |-> 0]
    [] call.op = "calculateCESValue" -> 0

\* C12: a degenerate call of weightedMean, pooledStd, toDeviationScore,
\* aggregateDistributions, summarize or calculateCESValue does not throw and
\* returns the fallback value of the function.
DegenerateCallsReturnFallback ==
  (ret # << >> /\ Degenerate(args)) =>
    /\ ret[1].threw = ""
    /\ ret[1].value = Fallback(args)

\* ------------------------------------------------------------------------
\* Properties of the yearly step
\* ------------------------------------------------------------------------

\* C13: after one simulateYear call on a new engine with the default
\* investments and stochasticity disabled, totalTalent is the sum of the
\* cohort counts and lies within 5% of 460,000.
PopulationAfterOneYearNear460000 ==
  (log = << [op |-> "simulateYear", years |-> 1] >>
     /\ ~heap[state.config].enableStochasticity) =>
    /\ heap[state.investments] = DEFAULT_INVESTMENTS
    /\ state.totalTalent = calculateTotalTalent(CohortsOf(this))
    /\ 95 * 460000 <= 100 * state.totalTalent
    /\ 100 * state.totalTalent <= 105 * 460000

\* ------------------------------------------------------------------------
\* A deviation score converted to a raw score and back
\* ------------------------------------------------------------------------

\* Deviation scores 1 to 99, whole and half
RoundTripScores == { Dyadic(k, -1) : k \in {2, 24, 50, 75, 100, 126, 151, 182, 188, 198} }

RoundTripMeans == { Number(0), Number(50), Number(60) }

\* Standard deviations, all above zero
RoundTripStds == { Number(1), Number(3), Number(10), Number(15) }

InitRoundTrip ==
  /\ NoEngine
  /\ NoInstances
  /\ NoWorker
  /\ NoApp
  /\ args \in { [deviation |-> d, mean |-> mu, std |-> sigma] :
                  d \in RoundTripScores, mu \in RoundTripMeans, sigma \in RoundTripStds }
  /\ ret = << >>

\* The caller computes the raw score of the deviation score
CallFromDeviationScore ==
  /\ ret = << >>
  /\ ret' = << fromDeviationScore(args.deviation, args.mean, args.std) >>
  /\ UNCHANGED << args, engineVars, randomVars, workerVars, appVars >>

\* The caller computes the deviation score of that raw score
CallToDeviationScoreOfRaw ==
  /\ Len(ret) = 1
  /\ ret' = ret \o << toDeviationScore(ret[1], args.mean, args.std) >>
  /\ UNCHANGED << args, engineVars, randomVars, workerVars, appVars >>

NextRoundTrip ==
  \/ CallFromDeviationScore
  \/ CallToDeviationScoreOfRaw

SpecRoundTrip == InitRoundTrip /\ [][NextRoundTrip]_vars

\* C14 as stated: for std > 0, toDeviationScore(fromDeviationScore(d, mean,
\* std), mean, std) equals d.
RoundTripIsExact ==
  Len(ret) = 2 => NumEq(ret[2], args.deviation)

\* C14: for std > 0, toDeviationScore(fromDeviationScore(d, mean, std), mean,
\* std) differs from d by less than 2^-40, the rounding error of the six
\* operations on numbers of this size.
RoundTripWithinRounding ==
  Len(ret) = 2 => NumBelowTwoTo(NumSub(ret[2], args.deviation), -40)

\* The score 1 with mean 50 and std 1 comes back as 1.0000000000000142
RoundTripWithinRoundingWitness ==
  /\ Len(ret) = 2
  /\ args = [deviation |-> Number(1), mean |-> Number(50), std |-> Number(1)]
  /\ ret[2] = NumAdd(Number(1), Dyadic(1, -46))
  /\ ~NumEq(ret[2], args.deviation)

\* ------------------------------------------------------------------------
\* Standardization of JavaScript numbers (math/ces.ts normalizeCapability,
\* SimulationEngine.normalizeToDeviation, toDeviationScore)
\* ------------------------------------------------------------------------

\* values.reduce((a, b) => a + b, 0) over the first n values
RECURSIVE NumSumUpTo(_, _)
NumSumUpTo(values, n) ==
  IF n = 0 THEN Zero64 ELSE NumAdd(NumSumUpTo(values, n - 1), values[n])

\* normalizeCapability(capability, globalStats) on numbers:
\* z = globalStats.std > 0 ? (value - globalStats.mean) / globalStats.std : 0
normalizeCapabilityOfNumbers(capability, globalStats) ==
  [key \in AxisSet |->
     NumAdd(Number(DEVIATION_BASE),
            NumMul(Number(DEVIATION_SCALE),
                   IF NumPositive(globalStats.std)
                     THEN NumDiv(NumSub(capability[key], globalStats.mean), globalStats.std)
                     ELSE Zero64))]

\* normalizeToDeviation(capability) on numbers: the mean and the population
\* standard deviation of the 12 axis values, std = Math.sqrt(variance) || 10
normalizeToDeviationOfNumbers(capability) ==
  With(NumDiv(NumSumUpTo(AxisValues(capability), 12), Number(12)),
    LAMBDA mean :
      With(NumDiv(NumSumUpTo([i \in 1..12 |->
                                NumMul(NumSub(AxisValues(capability)[i], mean),
                                       NumSub(AxisValues(capability)[i], mean))], 12),
                  Number(12)),
        LAMBDA variance :
          With(IF NumEq(NumSqrt(variance), Zero64) THEN Number(10) ELSE NumSqrt(variance),
            LAMBDA std : normalizeCapabilityOfNumbers(capability,
                                                      [mean |-> mean, std |-> std]))))

\* The number written k / 10 in decimal
Tenths(k) == NumDiv(Number(k), Number(10))

\* A capability vector with the same value on all 12 axes
Uniform(value) == [key \in AxisSet |-> value]

\* A capability vector with the values 41, 42, ..., 52
Ramp ==
  [key \in AxisSet |-> Number(40 + (CHOOSE i \in 1..12 : CAPABILITY_AXIS_KEYS[i] = key))]

\* The values of the uniform vectors, 0.1 to 100
UniformValues ==
  { Tenths(k) : k \in {1, 7, 30, 127, 250, 333, 400, 472, 500, 503, 555, 600,
                       625, 700, 755, 800, 875, 901, 950, 1000} }

NormalizeCalls ==
  { [op |-> "toDeviationScore", value |-> v, mean |-> mu, std |-> sigma] :
      v \in {Number(0), Tenths(503), Number(70), Number(-5)},
      mu \in {Number(50), Number(60)}, sigma \in {Zero64, Number(10), Number(12)} }
  \union
  { [op |-> "normalizeCapability", capability |-> c,
     globalStats |-> [mean |-> mu, std |-> sigma]] :
      c \in {Uniform(Number(50)), Uniform(Tenths(503)), Uniform(Zero64), Ramp},
      mu \in {Number(50), Number(60)}, sigma \in {Zero64, Number(10)} }
  \union
  { [op |-> "normalizeToDeviation", capability |-> c] :
      c \in {Uniform(v) : v \in UniformValues} \union {Ramp} }

InitNormalize ==
  /\ NoEngine
  /\ NoInstances
  /\ NoWorker
  /\ NoApp
  /\ args \in NormalizeCalls
  /\ ret = << >>

CallNormalizeCapability ==
  /\ args.op = "normalizeCapability"
  /\ Returns(normalizeCapabilityOfNumbers(args.capability, args.globalStats))

CallNormalizeToDeviation ==
  /\ args.op = "normalizeToDeviation"
  /\ Returns(normalizeToDeviationOfNumbers(args.capability))

NextNormalize ==
  \/ CallToDeviationScore
  \/ CallNormalizeCapability
  \/ CallNormalizeToDeviation

SpecNormalize == InitNormalize /\ [][NextNormalize]_vars

\* The values to standardize have no spread: the std passed is 0, or the 12
\* axis values passed are equal
ZeroSpread(call) ==
  CASE call.op = "toDeviationScore" -> NumEq(call.std, Zero64)
    [] call.op = "normalizeCapability" -> NumEq(call.globalStats.std, Zero64)
    [] call.op = "normalizeToDeviation" ->
         \A key \in AxisSet : call.capability[key] = call.capability[CAPABILITY_AXIS_KEYS[1]]

\* The deviation scores a call returned
ScoresOf(call, value) ==
  IF call.op = "toDeviationScore" THEN {value} ELSE {value[key] : key \in AxisSet}

\* C15: toDeviationScore and normalizeCapability with std 0, and
\* normalizeToDeviation of 12 equal axis values, return exactly 50 for every
\* input value.
ZeroSpreadScoresFifty ==
  (ret # << >> /\ ZeroSpread(args)) =>
    \A score \in ScoresOf(args, ret[1].value) : NumEq(score, Number(50))

\* ------------------------------------------------------------------------
\* calculateCESValue of a single input
\* ------------------------------------------------------------------------

\* Means from 0 to 99.9, in units; 0.01 is Unit \div 100
SingleMeans ==
  { 0, 60, Unit \div 100, Unit \div 100 + 1, Unit \div 2, Unit, 12 * Unit + 8400,
    30 * Unit, 47 * Unit + 3000, 50 * Unit, 50 * Unit + 3600, 62 * Unit + 6000,
    75 * Unit, 99 * Unit + 10800 }

\* Weights: cohort counts, and 0
SingleWeights == { 0, 1, 2, 38000, 120000 }

InitSingleInput ==
  /\ NoEngine
  /\ NoInstances
  /\ NoWorker
  /\ NoApp
  /\ args \in { [op |-> "calculateCESValue", inputs |-> << m >>, weights |-> << w >>] :
                  m \in SingleMeans, w \in SingleWeights }
  /\ ret = << >>

NextSingleInput == CallCalculateCESValue

SpecSingleInput == InitSingleInput /\ [][NextSingleInput]_vars

\* The two values differ by at most a thousandth, the resolution of PowExp
\* and PowInv
WithinThousandth(a, b) == a - b <= Unit \div 1000 /\ b - a <= Unit \div 1000

Gradient2(sector, axis) ==
  CASE sector = "university" ->
         (CASE axis = "basicScience" -> 5 [] axis = "education" -> 4
            [] axis = "innovation" -> 3 [] axis = "succession" -> 2
            [] OTHER -> 0)
    [] sector = "industry" ->
         (CASE axis = "appliedTech" -> 6 [] axis = "manufacturing" -> 5
            [] axis = "digitalAI" -> 4 [] axis = "implementation" -> 4
            [] axis = "finance" -> 2 [] OTHER -> 0)
    [] sector = "government" ->
         (CASE axis = "policyMaking" -> 4 [] axis = "globalCompete" -> 3
            [] axis = "energy" -> 2 [] OTHER -> 0)
    [] sector = "research" ->
         (CASE axis = "basicScience" -> 5 [] axis = "appliedTech" -> 4
            [] axis = "innovation" -> 5 [] axis = "globalCompete" -> 3
            [] axis = "digitalAI" -> 3 [] OTHER -> 0)

SECTOR_GRADIENTS(sector, axis) == Dyadic(Gradient2(sector, axis), -1)

\* One element of calculateGaps: gap = target - current,
\* priority = gap > 0 ? gap * (1 + (100 - current) / 100) : 0
GapOf(current, target, axis) ==
  With(NumSub(target[axis], current[axis]),
    LAMBDA gap :
      [axis |-> axis, gap |-> gap,
       priority |-> IF NumPositive(gap)
                      THEN NumMul(gap, NumAdd(Number(1),
                                              NumDiv(NumSub(Number(100), current[axis]),
                                                     Number(100))))
                      ELSE Zero64])

\* sort((a, b) => b.priority - a.priority) is stable: g goes behind every
\* element whose priority is not smaller
RECURSIVE InsertByPriority(_, _)
InsertByPriority(gaps, g) ==
  IF gaps = << >> THEN << g >>
  ELSE IF NumCmp(Head(gaps).priority, g.priority) >= 0
    THEN << Head(gaps) >> \o InsertByPriority(Tail(gaps), g)
  ELSE << g >> \o gaps

RECURSIVE SortedByPriorityUpTo(_, _)
SortedByPriorityUpTo(gaps, n) ==
  IF n = 0 THEN << >>
  ELSE InsertByPriority(SortedByPriorityUpTo(gaps, n - 1), gaps[n])

calculateGaps(current, target) ==
  SortedByPriorityUpTo([i \in 1..12 |-> GapOf(current, target, CAPABILITY_AXIS_KEYS[i])], 12)

\* effectiveness[sector] after the first n gaps
RECURSIVE EffectivenessUpTo(_, _, _)
EffectivenessUpTo(gaps, sector, n) ==
  IF n = 0 THEN Zero64
  ELSE IF ~NumPositive(gaps[n].priority) THEN EffectivenessUpTo(gaps, sector, n - 1)
  ELSE NumAdd(EffectivenessUpTo(gaps, sector, n - 1),
              NumMul(SECTOR_GRADIENTS(sector, gaps[n].axis), gaps[n].priority))

calculateSectorEffectiveness(gaps) ==
  [sector \in SectorSet |-> EffectivenessUpTo(gaps, sector, Len(gaps))]

\* SECTOR_KEYS.reduce((a, b) => smoothed[a] > smoothed[b] ? a : b) over the
\* first n keys
RECURSIVE maxSectorUpTo(_, _)
maxSectorUpTo(smoothed, n) ==
  IF n = 1 THEN SECTOR_KEYS[1]
  ELSE IF smoothed[maxSectorUpTo(smoothed, n - 1)] > smoothed[SECTOR_KEYS[n]]
    THEN maxSectorUpTo(smoothed, n - 1)
  ELSE SECTOR_KEYS[n]

\* smoothed[sector] = Math.round(raw[sector] * 0.8 + currentInvestments[sector] * 0.2)
\* with raw[sector] = (effectiveness[sector] / totalEffectiveness) * 100
Smoothed(effectiveness, totalEffectiveness, currentInvestments) ==
  [sector \in SectorSet |->
     MathRound(NumAdd(NumMul(NumMul(NumDiv(effectiveness[sector], totalEffectiveness),
                                    Number(100)),
                             Tenths(8)),
                      NumMul(Number(currentInvestments[sector]), Tenths(2))))]

\* generateOptimalAllocation without the step that ensures the sum
generateOptimalAllocationWithoutRemainder(effectiveness, currentInvestments) ==
  With(NumSumUpTo([i \in 1..4 |-> effectiveness[SECTOR_KEYS[i]]], 4),
    LAMBDA totalEffectiveness :
      IF NumEq(totalEffectiveness, Zero64)
        THEN [university |-> 25, industry |-> 25, government |-> 25, research |-> 25]
      ELSE Smoothed(effectiveness, totalEffectiveness, currentInvestments))

generateOptimalAllocation(effectiveness, currentInvestments) ==
  With(NumSumUpTo([i \in 1..4 |-> effectiveness[SECTOR_KEYS[i]]], 4),
    LAMBDA totalEffectiveness :
      IF NumEq(totalEffectiveness, Zero64)
        THEN [university |-> 25, industry |-> 25, government |-> 25, research |-> 25]
      ELSE With(Smoothed(effectiveness, totalEffectiveness, currentInvestments),
             LAMBDA smoothed :
               With(SumSeq([i \in 1..4 |-> smoothed[SECTOR_KEYS[i]]]),
                 LAMBDA sum :
                   IF sum # 100
                     THEN [smoothed EXCEPT ![maxSectorUpTo(smoothed, 4)] = @ + 100 - sum]
                     ELSE smoothed)))

\* Math.max(...gaps.map(g => Math.abs(g.gap))) over the first n gaps
RECURSIVE maxGapUpTo(_, _)
maxGapUpTo(gaps, n) ==
  IF n = 0 THEN Zero64
  ELSE With(maxGapUpTo(gaps, n - 1),
         LAMBDA before :
           IF NumCmp([gaps[n].gap EXCEPT !.neg = FALSE], before) > 0
             THEN [gaps[n].gap EXCEPT !.neg = FALSE] ELSE before)

\* getOptimizationRecommendation(state, target): the suggested investments
\* and the confidence level.  The rationale texts and the projected score
\* improvement are computed from the suggested investments and left out.
getOptimizationRecommendation(simulationState, target) ==
  With(calculateGaps(simulationState.capability, target),
    LAMBDA gaps :
      [suggestedInvestments |->
         generateOptimalAllocation(calculateSectorEffectiveness(gaps),
                                   simulationState.investments),
       confidenceLevel |->
         IF NumCmp(maxGapUpTo(gaps, 12), Number(10)) < 0 THEN "high"
         ELSE IF NumCmp(maxGapUpTo(gaps, 12), Number(20)) < 0 THEN "medium"
         ELSE "low"])

DEFAULT_TARGET_CAPABILITY ==
  [basicScience |-> Number(70), appliedTech |-> Number(75), digitalAI |-> Number(80),
   manufacturing |-> Number(70), finance |-> Number(65), energy |-> Number(70),
   globalCompete |-> Number(75), innovation |-> Number(80), education |-> Number(70),
   policyMaking |-> Number(65), implementation |-> Number(75), succession |-> Number(70)]

\* A capability vector with the values 43.7, 47.4, ..., 84.4
Staircase ==
  [key \in AxisSet |->
     Tenths(400 + 37 * (CHOOSE i \in 1..12 : CAPABILITY_AXIS_KEYS[i] = key))]

AdvisorCapabilities == { Uniform(Number(50)), Uniform(Number(80)), Ramp, Staircase }

AdvisorTargets == { DEFAULT_TARGET_CAPABILITY, Uniform(Number(60)), Uniform(Tenths(555)) }

\* Current allocations, among them some that do not sum to 100
AdvisorInvestments ==
  { DEFAULT_INVESTMENTS,
    [university |-> 100, industry |-> 0, government |-> 0, research |-> 0],
    [university |-> 25, industry |-> 25, government |-> 25, research |-> 25],
    [university |-> 33, industry |-> 33, government |-> 33, research |-> 1],
    [university |-> 0, industry |-> 0, government |-> 0, research |-> 0],
    [university |-> 50, industry |-> 50, government |-> 50, research |-> 50] }

InitAdvisor ==
  /\ NoEngine
  /\ NoInstances
  /\ NoWorker
  /\ NoApp
  /\ args \in { [state |-> [capability |-> c, investments |-> i], target |-> t] :
                  c \in AdvisorCapabilities, i \in AdvisorInvestments, t \in AdvisorTargets }
  /\ ret = << >>

CallGetOptimizationRecommendation ==
  Returns(getOptimizationRecommendation(args.state, args.target))

NextAdvisor == CallGetOptimizationRecommendation

SpecAdvisor == InitAdvisor /\ [][NextAdvisor]_vars

\* C17: the allocation the advisor suggests sums to exactly 100, for every
\* current capability, target vector and current allocation.
SuggestedAllocationSumsTo100 ==
  ret # << >> =>
    SumSeq([i \in 1..4 |-> ret[1].value.suggestedInvestments[SECTOR_KEYS[i]]]) = 100

\* The rounded blend of the default allocation does not sum to 100, and the
\* remainder went to the largest sector
SuggestedAllocationSumsTo100Witness ==
  /\ ret # << >>
  /\ args.state.investments = DEFAULT_INVESTMENTS
  /\ \E sector \in SectorSet :
       /\ ret[1].value.suggestedInvestments[sector]
            # generateOptimalAllocationWithoutRemainder(
                calculateSectorEffectiveness(calculateGaps(args.state.capability,
                                                           args.target)),
                args.state.investments)[sector]
       /\ \A other \in SectorSet :
            ret[1].value.suggestedInvestments[other]
              <= ret[1].value.suggestedInvestments[sector]
  /\ SumSeq([i \in 1..4 |-> ret[1].value.suggestedInvestments[SECTOR_KEYS[i]]]) = 100

\* ------------------------------------------------------------------------
\* A run with all investment in one sector: setInvestments on a new engine,
\* then simulateYear year after year
\* ------------------------------------------------------------------------

\* The number of years of such a run
MaxGradientYears == 10

UniversityOnly == [university |-> 100, industry |-> 0, government |-> 0, research |-> 0]

IndustryOnly == [university |-> 0, industry |-> 100, government |-> 0, research |-> 0]

GradientConfigs ==
  [mode : {"cohort"}, seed : {1, 12345}, baseYear : {2024, 2035},
   enableStochasticity : BOOLEAN]

InitGradient == Constructed(GradientConfigs)

InvestIn(investments) ==
  /\ log = << >>
  /\ log' = << [op |-> "setInvestments", years |-> 0, investments |-> investments] >>
  /\ \E E \in {setInvestments(this, investments)} : Become(E)
  /\ UNCHANGED << heldState, heldHistory, randomVars, workerVars, callVars, appVars >>

SimulateGradientYear ==
  /\ log # << >>
  /\ state.year < MaxGradientYears
  /\ log' = Append(log, [op |-> "simulateYear", years |-> 1])
  /\ \E E \in {simulateYear(this)} : Become(E)
  /\ UNCHANGED << heldState, heldHistory, randomVars, workerVars, callVars, appVars >>

NextGradient ==
  \/ InvestIn(UniversityOnly)
  \/ InvestIn(IndustryOnly)
  \/ SimulateGradientYear

SpecGradient == InitGradient /\ [][NextGradient]_vars

\* A new engine of the same configuration run for the same number of years
\* with the given investments
RunWith(investments) ==
  simulateYears(setInvestments(constructor(heap[state.config]), investments), state.year)

\* C18: after 10 years with all investment in the university sector, the
\* basicScience and education deviation scores are strictly greater than
\* those of a new engine of the same configuration run for 10 years with all
\* investment in the industry sector.
UniversityRaisesScienceAndEducation ==
  (state.year = 10 /\ heap[state.investments] = UniversityOnly) =>
    \E other \in {RunWith(IndustryOnly)} :
      /\ heap[state.capabilityNormalized].basicScience
           > other.heap[other.state.capabilityNormalized].basicScience
      /\ heap[state.capabilityNormalized].education
           > other.heap[other.state.capabilityNormalized].education

\* The university run has reached year 10, with 11 history entries, and the
\* industry run of the same configuration is the one the model reaches
UniversityRaisesScienceAndEducationWitness ==
  /\ state.year = 10
  /\ Len(history) = 11
  /\ heap[state.investments] = UniversityOnly
  /\ heap[state.config].enableStochasticity
  /\ RunWith(UniversityOnly) = this

\* The cohorts a year leaves when the stages run in the order population
\* dynamics, transitions, skill growth, skill decay, each on the output of
\* the one before
CohortsInStatedOrder ==
  applySkillDecay(
    applySkillGrowth(
      applyTransitions(applyPopulationDynamics(CohortsOf(this), heap[state.policyParams],
                                               state.year, heap[state.config].baseYear)),
      heap[state.investments], heap[state.config].enableStochasticity, rng).cohorts)

Rule(from, to, probability) == [from |-> from, to |-> to, probability |-> probability]

DEFAULT_TRANSITIONS ==
  << Rule("master_student", "phd_student", 10), Rule("master_student", "ind_junior", 60),
     Rule("master_student", "exit", 30), Rule("phd_student", "postdoc", 50),
     Rule("phd_student", "res_junior", 20), Rule("phd_student", "ind_mid", 20),
     Rule("postdoc", "assist_prof", 30), Rule("postdoc", "res_mid", 30),
     Rule("assist_prof", "prof_mid", 50), Rule("prof_mid", "prof_senior", 60),
     Rule("prof_senior", "retire", 10),
     Rule("ind_junior", "ind_mid", 70), Rule("ind_mid", "ind_senior", 50),
     Rule("ind_senior", "retire", 15),
     Rule("gov_junior", "gov_mid", 60), Rule("gov_mid", "gov_senior", 40),
     Rule("gov_senior", "retire", 20),
     Rule("res_junior", "res_mid", 60), Rule("res_mid", "res_senior", 50),
     Rule("res_senior", "retire", 10) >>

\* flowCount of a rule without jitter: floor(count * probability), count the
\* count of the source cohort in the cohorts before the transitions
FlowCount(cohorts, rule) ==
  SumSeq([i \in 1..Len(cohorts) |->
            IF cohorts[i].id = rule.from
              THEN (cohorts[i].count * rule.probability) \div 100 ELSE 0])

\* What the rules move into the cohort id, and out of it
FlowInto(cohorts, id) ==
  SumSeq([k \in 1..Len(DEFAULT_TRANSITIONS) |->
            IF DEFAULT_TRANSITIONS[k].to = id
              THEN FlowCount(cohorts, DEFAULT_TRANSITIONS[k]) ELSE 0])

FlowOutOf(cohorts, id) ==
  SumSeq([k \in 1..Len(DEFAULT_TRANSITIONS) |->
            IF DEFAULT_TRANSITIONS[k].from = id
              THEN FlowCount(cohorts, DEFAULT_TRANSITIONS[k]) ELSE 0])

\* The cohorts the transitions of the coming year start from
BeforeTransitions ==
  applyPopulationDynamics(CohortsOf(this), heap[state.policyParams], state.year,
                          heap[state.config].baseYear)

\* C20: over the transitions of a year without jitter, every cohort's count
\* changes by what the rules move into it minus what they move out of it, so
\* the total changes by minus the exit and retire flows.
TransitionsConservePeople ==
  [][(last'.op = "simulateYear" /\ ~heap[state.config].enableStochasticity) =>
       \E before \in {BeforeTransitions} :
         /\ \A i \in 1..Len(before) :
              CohortsOf(this)'[i].count - before[i].count
                = FlowInto(before, before[i].id) - FlowOutOf(before, before[i].id)
         /\ calculateTotalTalent(CohortsOf(this)') - calculateTotalTalent(before)
              = - (FlowInto(before, "exit") + FlowInto(before, "retire"))]_vars

\* ------------------------------------------------------------------------
\* The attempts of truncatedGaussian
\* ------------------------------------------------------------------------

\* The instance x has just returned from a call of truncatedGaussian
ReturnsFromTruncatedGaussian(x) ==
  /\ gen'[x].made = gen[x].made + 1
  /\ script'[gen'[x].made].method = "truncatedGaussian"

\* C22: a call truncatedGaussian(mean, std, min, max) with min <= max makes k
\* Gaussian draws, 1 <= k <= 100, that is 2k calls of next(); none of the
\* first k - 1 draws is within [min, max]; the value returned is within
\* [min, max]: it is the k-th draw when that one is within the bounds, and
\* otherwise k is 100 and the value is the 100th draw clamped to the bounds.
TruncatedGaussianStopsWithinBounds ==
  [][\A x \in Instances :
       ReturnsFromTruncatedGaussian(x) =>
         \E c \in {script'[gen'[x].made]} :
           \E value \in {gen'[x].out[gen'[x].made]} :
             \E k \in 1..100 :
               LET draw(j)   == gaussian(Advance(gen[x].seed, 2 * (j - 1)), c.mean, c.std).value
                   inside(j) == draw(j) >= c.min * 1000 /\ draw(j) <= c.max * 1000
               IN  /\ c.min <= c.max
                   /\ gen'[x].seed = Advance(gen[x].seed, 2 * k)
                   /\ \A j \in 1..(k - 1) : ~inside(j)
                   /\ value >= c.min * 1000 /\ value <= c.max * 1000
                   /\ IF inside(k) THEN value = draw(k)
                      ELSE /\ k = 100
                           /\ value = IF draw(k) < c.min * 1000 THEN c.min * 1000
                                      ELSE c.max * 1000]_vars

\* An instance that returned a draw within [45, 55] from its first call, and
\* from its second, after 100 draws outside [9, 10], the bound 9
TruncatedGaussianStopsWithinBoundsWitness ==
  \E x \in Instances :
    /\ gen[x].made = 2
    /\ script[1] = [method |-> "truncatedGaussian", mean |-> 50, std |-> 10,
                    min |-> 45, max |-> 55]
    /\ script[2] = [method |-> "truncatedGaussian", mean |-> 0, std |-> 1,
                    min |-> 9, max |-> 10]
    /\ gen[x].out[1] >= 45000 /\ gen[x].out[1] <= 55000
    /\ gen[x].out[2] = 9000
    /\ \E first \in {truncatedGaussian(SeededRandomNew(givenSeed), 50, 10, 45, 55)} :
         /\ gen[x].out[1] = first.value
         /\ gen[x].seed = Advance(first.seed, 200)

\* ------------------------------------------------------------------------
\* The percentiles of the Monte Carlo summary
\* ------------------------------------------------------------------------

\* The percentile ranks of the summary and the field each is reported in
SummaryRanks ==
  { << 5, "p5" >>, << 25, "p25" >>, << 50, "p50" >>, << 75, "p75" >>, << 95, "p95" >> }

\* C23: the RESULT of a MONTE_CARLO request with n >= 1 runs reports, for
\* p = 5, 25, 50, 75 and 95, the linear interpolation on the sorted scores of
\* the runs at the rank r = p / 100 * (n - 1): the element at r when r is an
\* integer, and otherwise the element below r weighted by its distance to
\* the rank above plus the element above r weighted by the rest.
MonteCarloPercentilesInterpolate ==
  (received # << >> /\ newest.type = "MONTE_CARLO" /\ Len(results) >= 1) =>
    \E stats \in {posted[Len(posted)].payload.monteCarloStats} :
      \E scores \in {sorted([i \in 1..Len(results) |-> results[i].statistics.avgScore])} :
        \A rank \in SummaryRanks :
          LET r100  == rank[1] * (Len(scores) - 1)
              lower == r100 \div 100
              part  == r100 % 100
          IN  IF part = 0 THEN stats[rank[2]] = scores[lower + 1]
              ELSE 100 * stats[rank[2]]
                     = scores[lower + 1] * (100 - part) + scores[lower + 2] * part

\* ------------------------------------------------------------------------
\* The population decline factor before and between the projection years
\* ------------------------------------------------------------------------

\* The years simulated on an engine whose base year the caller chose
MaxBaselineYears == 10

BaselineConfigs ==
  [mode : {"cohort"}, seed : {1}, baseYear : {2019, 2027, 2037, 2047, 2057},
   enableStochasticity : BOOLEAN]

InitBaseline == Constructed(BaselineConfigs)

SimulateBaselineYear ==
  /\ state.year < MaxBaselineYears
  /\ log' = Append(log, [op |-> "simulateYear", years |-> 1])
  /\ \E E \in {simulateYear(this)} : Become(E)
  /\ UNCHANGED << heldState, heldHistory, randomVars, workerVars, callVars, appVars >>

NextBaseline == SimulateBaselineYear

SpecBaseline == InitBaseline /\ [][NextBaseline]_vars

\* POPULATION_STATS.annualDeclineRate, in thousandths
annualDeclineRate == 12

\* b to the power k
RECURSIVE NatPow(_, _)
NatPow(b, k) == IF k = 0 THEN NatOf(1) ELSE NatMul(NatOf(b), NatPow(b, k - 1))

\* C24: the decline factor (in percent) simulateYear takes for its calendar
\* year baseYear + year is the factor of the largest projection year that is
\* not after it; when no projection year qualifies it is
\* (1 - annualDeclineRate) to the power year for year > 0, and 1 for year 0.
DeclineFactorFollowsTableOrDeclineRate ==
  [][last'.op = "simulateYear" =>
       \E currentYear \in {heap[state.config].baseYear + state.year} :
         \E factor \in {getPopulationDeclineFactor(currentYear)} :
           LET qualifying == {i \in 1..Len(ProjectionYears) : ProjectionYears[i] <= currentYear}
           IN  IF qualifying # {}
                 THEN \E i \in qualifying :
                        /\ \A j \in qualifying : ProjectionYears[j] <= ProjectionYears[i]
                        /\ factor = ProjectionPct[i]
               ELSE IF state.year > 0
                 THEN NatMul(NatOf(factor), NatPow(1000, state.year))
                        = NatMul(NatOf(100), NatPow(1000 - annualDeclineRate, state.year))
               ELSE factor = 100]_vars

\* ------------------------------------------------------------------------
\* The history and the settings across reset
\* ------------------------------------------------------------------------

\* C25: after construction and after any sequence of simulateYear,
\* simulateYears, setInvestments, setPolicyParams and reset calls, the history
\* is not empty, has exactly state.year + 1 entries, and its i-th entry
\* (from 0) records the year i.
HistoryIsIndexedByYear ==
  /\ Len(history) >= 1
  /\ Len(history) = state.year + 1
  /\ \A i \in 1..Len(history) : heap[history[i]].year = i - 1

\* Two years simulated in one call, a reset, and one more year: two entries
HistoryIsIndexedByYearWitness ==
  /\ Len(log) = 3
  /\ log[1].op = "simulateYears" /\ log[1].years = 2
  /\ log[2].op = "reset"
  /\ log[3].op = "simulateYear"
  /\ state.year = 1
  /\ Len(history) = 2
  /\ heap[history[2]].year = 1

\* The investments in force after the first k calls of the log: the argument
\* of the last setInvestments among them, the defaults when there is none
RECURSIVE InvestmentsAfter(_)
InvestmentsAfter(k) ==
  IF k = 0 THEN DEFAULT_INVESTMENTS
  ELSE IF log[k].op = "setInvestments" THEN log[k].investments
  ELSE InvestmentsAfter(k - 1)

\* The policy parameters in force after the first k calls of the log: the
\* defaults overridden by the arguments of the setPolicyParams calls in turn
RECURSIVE PolicyParamsAfter(_)
PolicyParamsAfter(k) ==
  IF k = 0 THEN DEFAULT_POLICY_PARAMS
  ELSE IF log[k].op = "setPolicyParams"
    THEN [key \in DOMAIN DEFAULT_POLICY_PARAMS |->
            IF key \in DOMAIN log[k].params THEN log[k].params[key]
            ELSE PolicyParamsAfter(k - 1)[key]]
  ELSE PolicyParamsAfter(k - 1)

\* C26: reset() leaves the investments and the policy parameters as the
\* caller set them last; the history it leaves is the one year-0 entry, which
\* records these investments; and every simulateYear, after a reset too,
\* computes the cohorts with the investments and the policy parameters set
\* last, whether that was before or after the reset.
ResetKeepsSettings ==
  [][ /\ last'.op = "reset" =>
           /\ StateOf(this)'.investments = StateOf(this).investments
           /\ StateOf(this)'.policyParams = StateOf(this).policyParams
           /\ StateOf(this)'.investments = InvestmentsAfter(Len(log))
           /\ StateOf(this)'.policyParams = PolicyParamsAfter(Len(log))
           /\ Len(history') = 1
           /\ HistoryOf(this)'[1].year = 0
           /\ HistoryOf(this)'[1].investments = StateOf(this).investments
      /\ last'.op = "simulateYear" =>
           /\ CohortsOf(this)'
                = YearPipeline(CohortsOf(this), InvestmentsAfter(Len(log)),
                               PolicyParamsAfter(Len(log)), state.year,
                               heap[state.config], rng).cohorts
           /\ HistoryOf(this)'[Len(history')].investments = InvestmentsAfter(Len(log))
    ]_vars

\* Policy parameters set, then a reset, then a year simulated with them: the
\* cohorts are not those the default parameters give
ResetKeepsSettingsWitness ==
  /\ Len(log) = 3
  /\ log[1].op = "setPolicyParams"
  /\ log[2].op = "reset"
  /\ log[3].op = "simulateYear"
  /\ StateOf(this).policyParams # DEFAULT_POLICY_PARAMS
  /\ Len(history) = 2
  /\ CohortsOf(this)
       # CohortsOf(simulateYear(constructor(heap[state.config])))

\* C27: in every state reached by simulateYear calls the succession score
\* (in hundredths) is within [0, 100].
SuccessionScoreStaysWithinRange ==
  /\ state.successionScore >= 0
  /\ state.successionScore <= 100 * 100

\* ------------------------------------------------------------------------
\* Engines without stochasticity, constructed with different seeds
\* ------------------------------------------------------------------------

\* The number of calls made on the engine
MaxSeedOps == 3

SeedConfigs ==
  [mode : {"cohort"}, seed : {1, 12345}, baseYear : {2024}, enableStochasticity : {FALSE}]

\* The seeds of the engines the same calls are made on
OtherSeeds == {0, 987654321}

InitSeeds == Constructed(SeedConfigs)

\* The call of the log entry made on the engine E
Apply(E, call) ==
  CASE call.op = "simulateYear" -> simulateYear(E)
    [] call.op = "setInvestments" -> setInvestments(E, call.investments)
    [] call.op = "setPolicyParams" -> setPolicyParams(E, call.params)
    [] call.op = "reset" -> reset(E)

Applied(call) ==
  /\ log' = Append(log, call)
  /\ \E E \in {Apply(this, call)} : Become(E)
  /\ UNCHANGED << heldState, heldHistory, randomVars, workerVars, callVars, appVars >>

SeededSimulateYear ==
  /\ Len(log) < MaxSeedOps
  /\ Applied([op |-> "simulateYear", years |-> 1])

SeededSetInvestments(investments) ==
  /\ Len(log) < MaxSeedOps
  /\ Applied([op |-> "setInvestments", years |-> 0, investments |-> investments])

SeededSetPolicyParams(params) ==
  /\ Len(log) < MaxSeedOps
  /\ Applied([op |-> "setPolicyParams", years |-> 0, params |-> params])

SeededReset ==
  /\ Len(log) < MaxSeedOps
  /\ Applied([op |-> "reset", years |-> 0])

NextSeeds ==
  \/ SeededSimulateYear
  \/ \E investments \in InvestmentChoices : SeededSetInvestments(investments)
  \/ \E params \in PolicyChoices : SeededSetPolicyParams(params)
  \/ SeededReset

SpecSeeds == InitSeeds /\ [][NextSeeds]_vars

\* The engine E after the first k calls of the log
RECURSIVE Replay(_, _)
Replay(E, k) ==
  IF k = 0 THEN E ELSE With(Replay(E, k - 1), LAMBDA E1 : Apply(E1, log[k]))

\* The engine constructed with the given seed and otherwise the configuration
\* of this engine, after the calls of the log
EngineSeeded(seed) ==
  Replay(constructor([heap[state.config] EXCEPT !.seed = seed]), Len(log))

\* C28: an engine with enableStochasticity false has, after any sequence of
\* setInvestments, setPolicyParams, simulateYear and reset calls, its
\* generator as constructed from the seed (no value was drawn from it), and
\* the cohorts and the history of an engine constructed with another seed on
\* which the same calls were made.
SeedIsIgnoredWithoutStochasticity ==
  ~heap[state.config].enableStochasticity =>
    /\ rng = SeededRandomNew(heap[state.config].seed)
    /\ \A seed \in OtherSeeds :
         With(EngineSeeded(seed),
              LAMBDA F :
                /\ F.heap[F.state.config].seed # heap[state.config].seed
                /\ CohortsOf(F) = CohortsOf(this)
                /\ HistoryOf(F) = HistoryOf(this))

\* Investments set and two years simulated with them on the engine of seed 1
SeedIsIgnoredWithoutStochasticityWitness ==
  /\ ~heap[state.config].enableStochasticity
  /\ heap[state.config].seed = 1
  /\ Len(log) = 3
  /\ log[1].op = "setInvestments"
  /\ log[2].op = "simulateYear"
  /\ log[3].op = "simulateYear"
  /\ state.year = 2
  /\ CohortsOf(this) # createInitialCohorts
  /\ CohortsOf(this) = CohortsOf(EngineSeeded(987654321))

\* ------------------------------------------------------------------------
\* The messages the worker posts for a request
\* ------------------------------------------------------------------------

\* The number of requests the main thread posts
MaxProgressRequests == 2

\* Runs long enough for the periodic PROGRESS messages (every 5th year,
\* every 10th iteration) and for the last one to differ
ProgressYearsPayloads ==
  { [years |-> 0], [years |-> 1], [years |-> 7, config |-> [seed |-> 7]],
    [config |-> [seed |-> 7]] }

ProgressMonteCarloPayloads ==
  { [iterations |-> 0, years |-> 1], [iterations |-> 1, years |-> 1],
    [iterations |-> 12, years |-> 0] }

\* A message event with the data e0: the whole of self.onmessage
Handled(e0) ==
  /\ now' = now + 1
  /\ \E e \in {Spread(<< e0 >>, [id |-> RequestId(Len(received) + 1)])} :
       \E W \in {onmessage([engine |-> engine, posted |-> << >>, results |-> << >>],
                           e, now + 1)} :
         /\ received' = Append(received, e)
         /\ engine' = W.engine
         /\ posted' = W.posted
         /\ results' = W.results
  /\ UNCHANGED << globalRng, givenSeed, script, gen, engineVars, callVars, appVars >>

RequestSimulate ==
  /\ Len(received) < MaxProgressRequests
  /\ Handled([type |-> "SIMULATE", payload |-> << >>])

RequestSimulateYears(payload) ==
  /\ Len(received) < MaxProgressRequests
  /\ Handled([type |-> "SIMULATE_YEARS", payload |-> payload])

RequestMonteCarlo(payload) ==
  /\ Len(received) < MaxProgressRequests
  /\ Handled([type |-> "MONTE_CARLO", payload |-> payload])

RequestReset ==
  /\ Len(received) < MaxProgressRequests
  /\ Handled([type |-> "RESET", payload |-> << >>])

RequestUnknown(type) ==
  /\ Len(received) < MaxProgressRequests
  /\ type \notin MessageTypes
  /\ Handled([type |-> type, payload |-> << >>])

RequestWithoutPayload(type) ==
  /\ Len(received) < MaxProgressRequests
  /\ type \in MessageTypes
  /\ Handled([type |-> type])

NextProgress ==
  \/ RequestSimulate
  \/ \E payload \in ProgressYearsPayloads : RequestSimulateYears(payload)
  \/ \E payload \in ProgressMonteCarloPayloads : RequestMonteCarlo(payload)
  \/ RequestReset
  \/ \E type \in UnknownTypes : RequestUnknown(type)
  \/ \E type \in {"SIMULATE_YEARS", "MONTE_CARLO"} : RequestWithoutPayload(type)

SpecProgress == InitWorker /\ [][NextProgress]_vars

\* The number of years or iterations the newest request asks for
RequestedTotal ==
  IF newest.type = "SIMULATE_YEARS"
    THEN (IF "years" \in DOMAIN newest.payload THEN newest.payload.years ELSE 10)
    ELSE (IF "iterations" \in DOMAIN newest.payload THEN newest.payload.iterations ELSE 100)

\* C29: the messages posted for the newest request end with its one terminal
\* message, an ERROR when the type is unknown or the handler threw (the
\* request has no payload) and a RESULT otherwise; every message before it is
\* a PROGRESS message; the progress values increase strictly and none exceeds
\* total, the number of years or iterations asked for; and when a
\* SIMULATE_YEARS or MONTE_CARLO request asks for at least one, the last
\* PROGRESS message has progress = total.
OneTerminalMessageAfterProgress ==
  received # << >> =>
    /\ Len(posted) >= 1
    /\ posted[Len(posted)].type
         = IF newest.type \notin MessageTypes \/ "payload" \notin DOMAIN newest
             THEN "ERROR" ELSE "RESULT"
    /\ \A k \in 1..(Len(posted) - 1) :
         /\ posted[k].type = "PROGRESS"
         /\ posted[k].payload.total = RequestedTotal
         /\ posted[k].payload.progress <= posted[k].payload.total
         /\ k > 1 => posted[k - 1].payload.progress < posted[k].payload.progress
    /\ (/\ newest.type \in {"SIMULATE_YEARS", "MONTE_CARLO"}
        /\ "payload" \in DOMAIN newest
        /\ RequestedTotal >= 1) =>
         /\ Len(posted) >= 2
         /\ posted[Len(posted) - 1].payload.progress = RequestedTotal
    /\ newest.type \notin {"SIMULATE_YEARS", "MONTE_CARLO"} => Len(posted) = 1

\* A SIMULATE_YEARS request for 7 years answered by PROGRESS 1, 6 and 7 and the
\* RESULT, after a MONTE_CARLO request of 12 iterations
OneTerminalMessageAfterProgressWitness ==
  /\ Len(received) = 2
  /\ received[1].type = "MONTE_CARLO"
  /\ "payload" \in DOMAIN received[1]
  /\ received[1].payload.iterations = 12
  /\ newest.type = "SIMULATE_YEARS"
  /\ Len(posted) = 4
  /\ posted[1].payload.progress = 1
  /\ posted[2].payload.progress = 6
  /\ posted[3].payload.progress = 7
  /\ posted[3].payload.total = 7
  /\ posted[4].type = "RESULT"

\* ------------------------------------------------------------------------
\* The engine the worker keeps
\* ------------------------------------------------------------------------

\* The number of requests the main thread posts
MaxEngineRequests == 3

\* SIMULATE and SIMULATE_YEARS requests, without and with a config
KeptSimulatePayloads == { << >>, [config |-> [seed |-> 7]] }

KeptSimulateYearsPayloads == { [years |-> 2, config |-> [seed |-> 7]] }

KeptMonteCarloPayloads == { [iterations |-> 1, years |-> 1] }

SendSimulate(payload) ==
  /\ Len(received) < MaxEngineRequests
  /\ Handled([type |-> "SIMULATE", payload |-> payload])

SendSimulateYears(payload) ==
  /\ Len(received) < MaxEngineRequests
  /\ Handled([type |-> "SIMULATE_YEARS", payload |-> payload])

SendMonteCarlo(payload) ==
  /\ Len(received) < MaxEngineRequests
  /\ Handled([type |-> "MONTE_CARLO", payload |-> payload])

SendReset ==
  /\ Len(received) < MaxEngineRequests
  /\ Handled([type |-> "RESET", payload |-> << >>])

NextKept ==
  \/ \E payload \in KeptSimulatePayloads : SendSimulate(payload)
  \/ \E payload \in KeptSimulateYearsPayloads : SendSimulateYears(payload)
  \/ \E payload \in KeptMonteCarloPayloads : SendMonteCarlo(payload)
  \/ SendReset

SpecKept == InitWorker /\ [][NextKept]_vars

\* The request e is a SIMULATE request that carries no config
SimulateWithoutConfig(e) == e.type = "SIMULATE" /\ "config" \notin DOMAIN e.payload

\* The final year of the result posted last
FinalYear == posted[Len(posted)].payload.finalState.year

\* C30: over every request the worker handles: a MONTE_CARLO request leaves
\* the engine the worker keeps as it was; a SIMULATE or SIMULATE_YEARS request
\* with a config steps an engine constructed from that config, so that the
\* result ends at year 1 or at the years asked for; a SIMULATE request without
\* config steps the engine the worker has, to the next year; and the k-th of
\* successive SIMULATE requests without config after a RESET returns a result
\* whose final year is k.
WorkerKeepsOneEngine ==
  [][Len(received') = Len(received) + 1 =>
       \E e \in {received'[Len(received')]} :
         /\ e.type = "MONTE_CARLO" =>
              /\ engine' = engine
              /\ \A i \in 1..Len(results') :
                   results'[i] = IndependentRun(e.payload, BaseSeed(e.payload) + (i - 1))
         /\ (e.type = "SIMULATE" /\ "config" \in DOMAIN e.payload) =>
              /\ engine' = << simulateYear(
                                applySettings(constructor(fullConfig(e.payload.config, now')),
                                              e.payload)) >>
              /\ FinalYear' = 1
         /\ (e.type = "SIMULATE_YEARS" /\ "config" \in DOMAIN e.payload) =>
              /\ engine' = << simulateYears(
                                applySettings(constructor(fullConfig(e.payload.config, now')),
                                              e.payload),
                                e.payload.years) >>
              /\ FinalYear' = e.payload.years
         /\ (SimulateWithoutConfig(e) /\ engine # << >>) =>
              /\ engine' = << simulateYear(applySettings(engine[1], e.payload)) >>
              /\ FinalYear' = engine[1].state.year + 1
         /\ \A r \in 1..Len(received) :
              (/\ received[r].type = "RESET"
               /\ \A j \in (r + 1)..Len(received') : SimulateWithoutConfig(received'[j])) =>
                FinalYear' = Len(received') - r]_vars

\* A RESET and two SIMULATE requests without config: the second result ends
\* at year 2
WorkerKeepsOneEngineWitness ==
  /\ Len(received) = 3
  /\ received[1].type = "RESET"
  /\ SimulateWithoutConfig(received[2])
  /\ SimulateWithoutConfig(received[3])
  /\ engine[1].state.year = 2
  /\ FinalYear = 2
  /\ Len(posted[Len(posted)].payload.history) = 3

\* ------------------------------------------------------------------------
\* The prototype component TalentSimulatorV3 (talent-simulator-v3-pop.jsx):
\* its cohorts, the yearly inflow from the population statistics and the
\* flows between cohorts.  Numbers are JavaScript numbers except the counts,
\* ages and tenures, which stay integers.
\* ------------------------------------------------------------------------

\* x + y, x - y, x * y and x / y, each operand computed once before the
\* operation, as JavaScript evaluates them
Plus(x, y) == With(x, LAMBDA a : With(y, LAMBDA b : NumAdd(a, b)))

Minus(x, y) == With(x, LAMBDA a : With(y, LAMBDA b : NumSub(a, b)))

Times(x, y) == With(x, LAMBDA a : With(y, LAMBDA b : NumMul(a, b)))

Over(x, y) == With(x, LAMBDA a : With(y, LAMBDA b : NumDiv(a, b)))

\* The literal k / 10^d
Literal(k, d) == Over(Number(k), Number(TwoTo(d) * NatToInt(NatPow(5, d))))

\* Math.floor(x) for 0 <= x < 2^31
MathFloor(x) ==
  With(x, LAMBDA a :
    IF a.man = << >> THEN 0
    ELSE IF a.exp >= 0 THEN NatToInt(NatShl(a.man, a.exp))
    ELSE NatToInt(NatShr(a.man, -a.exp)))

\* Math.round(x), x computed once
Rounded(x) == With(x, LAMBDA a : MathRound(a))

\* Math.max(0, Math.min(100, x))
Clamp0To100(x) ==
  With(x, LAMBDA a :
    IF a.man = << >> \/ a.neg THEN Zero64
    ELSE IF NumCmp(a, Number(100)) > 0 THEN Number(100)
    ELSE a)

\* Math.pow(x, n) for an integer n >= 0, as repeated multiplication
RECURSIVE MathPow(_, _)
MathPow(x, n) == IF n = 0 THEN Number(1) ELSE Times(MathPow(x, n - 1), x)

\* The skill keys, in the order of the skills object of a cohort
SkillKeys ==
  << "basicScience", "appliedTech", "digitalAI", "manufacturing", "finance", "energy",
     "globalCompete", "innovation", "education", "policyMaking", "implementation",
     "succession" >>

\* POPULATION_STATS.baseYear
PopulationBaseYear == 2024

\* POPULATION_STATS.agePopulation, in units of 10,000 people
agePopulation == [age18 |-> 110, age22 |-> 115, age24 |-> 118, age27 |-> 120]

\* POPULATION_STATS.rates
rates ==
  [universityEnrollment |-> Literal(56, 2), masterEnrollment |-> Literal(12, 2),
   phdEnrollment |-> Literal(10, 2), phdToAcademia |-> Literal(18, 2),
   phdToIndustry |-> Literal(42, 2), phdToResearch |-> Literal(30, 2),
   masterToIndustry |-> Literal(75, 2), masterToGov |-> Literal(12, 2),
   bachelorToIndustry |-> Literal(82, 2), bachelorToGov |-> Literal(8, 2)]

\* POPULATION_STATS.projections: the years, ascending, and their factors
projectionYears == << 2025, 2030, 2035, 2040, 2045, 2050 >>

projections == << Literal(99, 2), Literal(95, 2), Literal(90, 2), Literal(84, 2),
                  Literal(78, 2), Literal(72, 2) >>

\* The loop of calculateAnnualInflow over the projection years from the
\* largest down: the factor of the first one at or before currentYear, 1 when
\* there is none
RECURSIVE projectionFrom(_, _)
projectionFrom(currentYear, i) ==
  IF i = 0 THEN Number(1)
  ELSE IF currentYear >= projectionYears[i] THEN projections[i]
  ELSE projectionFrom(currentYear, i - 1)

\* declineFactor of calculateAnnualInflow
declineFactorOf(year) ==
  With(projectionFrom(PopulationBaseYear + year, Len(projectionYears)),
    LAMBDA declineFactor :
      IF NumEq(declineFactor, Number(1)) /\ year > 0
        THEN MathPow(Minus(Number(1), Literal(annualDeclineRate, 3)), year)
        ELSE declineFactor)

\* The literals 0.90, 0.92 and 0.70 of calculateAnnualInflow: the shares of
\* the students who complete a degree
BachelorCompletion == Literal(90, 2)

MasterCompletion == Literal(92, 2)

PhdCompletion == Literal(70, 2)

\* The return value of calculateAnnualInflow, given the populations and the
\* numbers of graduates it has computed
inflowOf(r, currentYear, declineFactor, pop18, bachelorGraduates, masterEntrants,
         masterGraduates, phdEntrants, phdGraduates) ==
  [master_student |-> MathRound(masterEntrants),
   phd_student    |-> MathRound(phdEntrants),
   assist_prof    |-> Rounded(Times(phdGraduates, r.phdToAcademia)),
   ind_junior_from_bachelor |->
     Rounded(Times(Minus(bachelorGraduates, masterEntrants), r.bachelorToIndustry)),
   ind_junior_from_master |->
     Rounded(Times(Times(masterGraduates, Minus(Number(1), r.phdEnrollment)),
                   r.masterToIndustry)),
   ind_junior_from_phd |-> Rounded(Times(phdGraduates, r.phdToIndustry)),
   gov_junior_from_bachelor |->
     Rounded(Times(Minus(bachelorGraduates, masterEntrants), r.bachelorToGov)),
   gov_junior_from_master |->
     Rounded(Times(Times(masterGraduates, Minus(Number(1), r.phdEnrollment)),
                   r.masterToGov)),
   res_junior |-> Rounded(Times(phdGraduates, r.phdToResearch)),
   stats |-> [declineFactor |-> declineFactor,
              currentYear |-> currentYear,
              pop18 |-> MathRound(pop18),
              universityEntrants |-> Rounded(Times(pop18, r.universityEnrollment)),
              bachelorGraduates |-> MathRound(bachelorGraduates),
              masterGraduates |-> MathRound(masterGraduates),
              phdGraduates |-> MathRound(phdGraduates)]]

\* calculateAnnualInflow(year, POPULATION_STATS, customRates): the rates are
\* { ...stats.rates, ...customRates }
calculateAnnualInflow(year, customRates) ==
  With(customRates @@ rates, LAMBDA r :
  With(declineFactorOf(year), LAMBDA declineFactor :
  With(Times(Times(Number(agePopulation.age18), Number(10000)), declineFactor),
    LAMBDA pop18 :
  With(Times(Times(Number(agePopulation.age22), Number(10000)), declineFactor),
    LAMBDA pop22 :
  With(Times(Times(pop22, r.universityEnrollment), BachelorCompletion),
    LAMBDA bachelorGraduates :
  With(NumMul(bachelorGraduates, r.masterEnrollment), LAMBDA masterEntrants :
  With(NumMul(masterEntrants, MasterCompletion), LAMBDA masterGraduates :
  With(NumMul(masterGraduates, r.phdEnrollment), LAMBDA phdEntrants :
  With(NumMul(phdEntrants, PhdCompletion), LAMBDA phdGraduates :
    inflowOf(r, PopulationBaseYear + year, declineFactor, pop18, bachelorGraduates,
             masterEntrants, masterGraduates, phdEntrants, phdGraduates))))))))))

\* A cohort of createInitialCohorts: the means and standard deviations of its
\* skills in the order of SkillKeys
V3Cohort(id, sector, count, avgAge, avgTenure, maxTenure, means, stds) ==
  [id |-> id, sector |-> sector, count |-> count, avgAge |-> avgAge,
   avgTenure |-> avgTenure, maxTenure |-> maxTenure,
   skills |-> [k \in 1..Len(SkillKeys) |->
                 [mean |-> Number(means[k]), std |-> Number(stds[k])]]]

\* createInitialCohorts() of the prototype
createInitialCohortsV3 ==
  <<
     V3Cohort("prof_senior", "university", 3000, 58, 28, 40,
              << 85, 55, 35, 30, 25, 50, 65, 60, 80, 45, 35, 75 >>,
              << 8, 12, 15, 10, 8, 12, 10, 12, 8, 12, 10, 10 >>),
     V3Cohort("prof_mid", "university", 2000, 45, 15, 40,
              << 75, 50, 45, 28, 22, 45, 55, 55, 70, 35, 30, 55 >>,
              << 10, 12, 15, 10, 8, 12, 12, 12, 10, 12, 10, 12 >>),
     V3Cohort("assist_prof", "university", 10000, 33, 4, 15,
              << 65, 45, 55, 25, 18, 40, 45, 50, 45, 20, 25, 30 >>,
              << 12, 12, 15, 10, 8, 12, 15, 12, 12, 10, 10, 12 >>),
     V3Cohort("phd_student", "university", 15000, 27, 2, 5,
              << 55, 40, 50, 22, 15, 35, 35, 45, 25, 12, 20, 15 >>,
              << 15, 12, 18, 10, 8, 12, 15, 15, 12, 8, 10, 10 >>),
     V3Cohort("master_student", "university", 30000, 24, 1, 2,
              << 45, 35, 45, 20, 12, 28, 28, 38, 15, 8, 15, 8 >>,
              << 15, 12, 18, 10, 8, 12, 15, 15, 10, 6, 10, 8 >>),
     V3Cohort("ind_senior", "industry", 50000, 52, 4, 5,
              << 40, 82, 55, 78, 40, 50, 50, 55, 35, 30, 80, 65 >>,
              << 12, 8, 15, 10, 12, 12, 12, 12, 12, 10, 8, 12 >>),
     V3Cohort("ind_mid", "industry", 150000, 38, 3, 5,
              << 35, 70, 65, 68, 35, 42, 42, 50, 25, 22, 72, 40 >>,
              << 12, 10, 15, 12, 12, 12, 12, 12, 10, 10, 10, 12 >>),
     V3Cohort("ind_junior", "industry", 100000, 28, 2, 5,
              << 32, 55, 68, 50, 28, 35, 38, 48, 15, 12, 58, 18 >>,
              << 12, 12, 15, 15, 12, 12, 15, 15, 10, 8, 12, 10 >>),
     V3Cohort("gov_executive", "government", 5000, 55, 2, 3,
              << 30, 35, 32, 25, 72, 55, 55, 35, 30, 85, 65, 30 >>,
              << 10, 12, 15, 10, 10, 12, 12, 12, 10, 8, 10, 12 >>),
     V3Cohort("gov_mid", "government", 20000, 42, 2, 3,
              << 28, 32, 38, 22, 62, 48, 45, 32, 28, 72, 58, 25 >>,
              << 10, 12, 15, 10, 12, 12, 12, 12, 10, 10, 12, 10 >>),
     V3Cohort("gov_junior", "government", 25000, 30, 1, 3,
              << 35, 38, 48, 20, 52, 40, 42, 38, 22, 55, 48, 15 >>,
              << 12, 12, 15, 10, 15, 12, 15, 15, 10, 15, 12, 10 >>),
     V3Cohort("res_senior", "research", 10000, 52, 7, 10,
              << 78, 65, 58, 35, 28, 65, 72, 68, 55, 42, 48, 58 >>,
              << 10, 12, 15, 12, 10, 12, 10, 10, 12, 12, 12, 12 >>),
     V3Cohort("res_mid", "research", 25000, 40, 5, 10,
              << 68, 58, 62, 32, 25, 58, 62, 62, 42, 35, 42, 42 >>,
              << 12, 12, 15, 12, 10, 12, 12, 12, 12, 12, 12, 12 >>),
     V3Cohort("res_junior", "research", 15000, 32, 3, 10,
              << 58, 50, 65, 28, 22, 48, 52, 55, 32, 25, 35, 25 >>,
              << 15, 12, 15, 12, 10, 15, 15, 15, 12, 12, 12, 12 >>)
  >>

\* An entry [targetId, rate] of TRANSITION_MATRIX, the rate in hundredths
Entry(targetId, rate) == [targetId |-> targetId, rate |-> rate]

\* TRANSITION_MATRIX: per source cohort its entries in the order of the object
TRANSITION_MATRIX ==
  (
     "master_student" :> << Entry("phd_student", 10), Entry("exit", 90) >> @@
     "phd_student" :> << Entry("assist_prof", 18), Entry("exit", 82) >> @@
     "assist_prof" :> << Entry("prof_mid", 8), Entry("ind_mid", 10), Entry("res_mid", 8), Entry("exit", 5) >> @@
     "prof_mid" :> << Entry("prof_senior", 5), Entry("exit", 2) >> @@
     "prof_senior" :> << Entry("retire", 3) >> @@
     "ind_junior" :> << Entry("ind_mid", 20), Entry("exit", 12) >> @@
     "ind_mid" :> << Entry("ind_senior", 12), Entry("exit", 8) >> @@
     "ind_senior" :> << Entry("retire", 8), Entry("exit", 5) >> @@
     "gov_junior" :> << Entry("gov_mid", 28), Entry("exit", 8) >> @@
     "gov_mid" :> << Entry("gov_executive", 8), Entry("exit", 10) >> @@
     "gov_executive" :> << Entry("retire", 18), Entry("exit", 8) >> @@
     "res_junior" :> << Entry("res_mid", 15), Entry("exit", 6) >> @@
     "res_mid" :> << Entry("res_senior", 10), Entry("exit", 4) >> @@
     "res_senior" :> << Entry("retire", 5), Entry("exit", 3) >>
  )

\* Math.random(): the generator is not specified and the renders between two
\* years draw from it too, so a handler sees one of several streams; the
\* n-th number a handler draws from stream u, in [0, 1)
MathRandom(u, n) == Dyadic((5 * u + 3 * n + u * n) % 16, -4)

Streams == {0, 1, 2}

\* The keys an investment in the sector of a cohort makes grow, and by how
\* many times the investment share
GrowingKeys(sector) ==
  CASE sector = "university" -> {"basicScience", "education", "innovation"}
    [] sector = "industry"   -> {"appliedTech", "manufacturing", "digitalAI", "implementation"}
    [] sector = "government" -> {"policyMaking", "finance", "implementation"}
    [] sector = "research"   -> {"basicScience", "globalCompete", "innovation", "energy"}

GrowthTimes ==
  [university |-> Literal(25, 1), industry |-> Number(3), government |-> Number(2),
   research |-> Literal(25, 1)]

\* The literals 0.3, 0.5, 1.5, 0.9 and 0.2 of simulateYear
TenureGrowth == Literal(3, 1)

Half == Literal(5, 1)

DecayOfDigitalAI == Literal(15, 1)

DecayOfOthers == Literal(3, 1)

LeastFlowFactor == Literal(9, 1)

FlowFactorSpread == Literal(2, 1)

\* growth of simulateYear for a skill key of a cohort, sectorInv the
\* investment in its sector divided by 100
growthOf(cohort, key, sectorInv) ==
  IF key = "succession" THEN Times(Number(cohort.avgTenure), TenureGrowth)
  ELSE IF key \in GrowingKeys(cohort.sector)
    THEN Times(sectorInv, GrowthTimes[cohort.sector])
  ELSE Zero64

\* decay of simulateYear
decayOf(key) == IF key = "digitalAI" THEN DecayOfDigitalAI ELSE DecayOfOthers

\* skill.mean + growth - decay + (random - 0.5), kept within 0 and 100
grownMean(mean, growth, decay, random) ==
  Clamp0To100(Plus(Minus(Plus(mean, growth), decay), Minus(random, Half)))

\* The callback of prev.map in simulateYear for the c-th cohort: a year of age
\* and tenure and the new skill means, the k-th skill drawing the number
\* 12 (c - 1) + k of the stream
agedCohort(cohort, c, investments, u) ==
  With(Over(Number(investments[cohort.sector]), Number(100)),
    LAMBDA sectorInv :
      With([k \in 1..Len(SkillKeys) |->
              [cohort.skills[k] EXCEPT !.mean =
                 grownMean(@, growthOf(cohort, SkillKeys[k], sectorInv),
                           decayOf(SkillKeys[k]),
                           MathRandom(u, Len(SkillKeys) * (c - 1) + k))]] \o << >>,
        LAMBDA skills :
          [cohort EXCEPT !.avgTenure = @ + 1, !.avgAge = @ + 1, !.skills = skills]))

\* TRANSITION_MATRIX[cohort.id], no entries when the cohort has none
entriesOf(cohort) ==
  IF cohort.id \in DOMAIN TRANSITION_MATRIX THEN TRANSITION_MATRIX[cohort.id] ELSE << >>

\* The decimal literals 0.01 .. 1.00 as the numbers they denote
Hundredths == [k \in 1..100 |-> Literal(k, 2)] \o << >>

\* flowCount of simulateYear; the rate is the entry's, in hundredths
flowCountOf(count, rate, random) ==
  MathFloor(Times(Times(Number(count), Hundredths[rate]),
                  Plus(LeastFlowFactor, Times(random, FlowFactorSpread))))

\* flowChanges[id] = (flowChanges[id] || 0) + by
Changed(flowChanges, id, by) ==
  IF id \in DOMAIN flowChanges THEN [flowChanges EXCEPT ![id] = @ + by]
  ELSE flowChanges @@ (id :> by)

\* flowChanges[id] || 0
ChangeOf(flowChanges, id) == IF id \in DOMAIN flowChanges THEN flowChanges[id] ELSE 0

\* flowChanges after a flow of flowCount along an entry of a cohort
movedAlong(flowChanges, cohort, entry, flowCount) ==
  IF entry.targetId \in {"exit", "retire"}
    THEN Changed(flowChanges, cohort.id, -flowCount)
    ELSE Changed(Changed(flowChanges, cohort.id, -flowCount), entry.targetId, flowCount)

\* One entry of a cohort's transitions read against the flows moved so far:
\* the flow is computed from what the cohort has by then
entryStepAfterEarlierFlows(cohort, entry, acc, u) ==
  With(flowCountOf(cohort.count + ChangeOf(acc.flowChanges, cohort.id),
                   entry.rate, MathRandom(u, acc.drawn + 1)),
    LAMBDA flowCount :
      [flowChanges |-> movedAlong(acc.flowChanges, cohort, entry, flowCount),
       drawn |-> acc.drawn + 1])

\* The callback of Object.entries(transitions).forEach(...) in simulateYear
\* for an entry of a cohort: acc holds flowChanges and the number of draws
\* made; the flow is computed from cohort.count, which the loop never writes
entryStep(cohort, entry, acc, u) ==
  With(flowCountOf(cohort.count, entry.rate, MathRandom(u, acc.drawn + 1)),
    LAMBDA flowCount :
      [flowChanges |-> movedAlong(acc.flowChanges, cohort, entry, flowCount),
       drawn |-> acc.drawn + 1])

\* Object.entries(transitions).forEach(...) of simulateYear for a cohort:
\* its first n entries, in their order
RECURSIVE entriesLoop(_, _, _, _, _)
entriesLoop(cohort, entries, n, acc, u) ==
  IF n = 0 THEN acc
  ELSE With(entriesLoop(cohort, entries, n - 1, acc, u),
         LAMBDA moved : entryStep(cohort, entries[n], moved, u))

\* newCohorts.forEach(...) of simulateYear over the cohorts from..to, in
\* their order: the first half of them, then the second half
RECURSIVE cohortsLoop(_, _, _, _, _)
cohortsLoop(newCohorts, from, to, acc, u) ==
  IF from > to THEN acc
  ELSE IF from = to
    THEN With(entriesOf(newCohorts[from]), LAMBDA entries :
           entriesLoop(newCohorts[from], entries, Len(entries), acc, u))
  ELSE With(cohortsLoop(newCohorts, from, (from + to) \div 2, acc, u),
         LAMBDA moved : cohortsLoop(newCohorts, (from + to) \div 2 + 1, to, moved, u))

\* The new entrants simulateYear adds to flowChanges
inflowChanges(flowChanges, inflow) ==
  With(Changed(flowChanges, "master_student", inflow.master_student), LAMBDA f1 :
  With(Changed(f1, "phd_student", inflow.phd_student), LAMBDA f2 :
  With(Changed(f2, "assist_prof", inflow.assist_prof), LAMBDA f3 :
  With(Changed(f3, "ind_junior", inflow.ind_junior_from_bachelor
                                 + inflow.ind_junior_from_master
                                 + inflow.ind_junior_from_phd), LAMBDA f4 :
  With(Changed(f4, "gov_junior", inflow.gov_junior_from_bachelor
                                 + inflow.gov_junior_from_master), LAMBDA f5 :
    Changed(f5, "res_junior", inflow.res_junior))))))

\* The updater simulateYear passes to setCohorts
updatedCohorts(prev, investments, inflow, u) ==
  With([c \in 1..Len(prev) |-> agedCohort(prev[c], c, investments, u)] \o << >>,
    LAMBDA newCohorts :
      With(cohortsLoop(newCohorts, 1, Len(newCohorts),
                       [flowChanges |-> << >>, drawn |-> Len(SkillKeys) * Len(prev)], u),
        LAMBDA moved :
      With(inflowChanges(moved.flowChanges, inflow),
        LAMBDA flowChanges :
          [c \in 1..Len(newCohorts) |->
             [newCohorts[c] EXCEPT !.count =
                IF @ + ChangeOf(flowChanges, newCohorts[c].id) < 100 THEN 100
                ELSE @ + ChangeOf(flowChanges, newCohorts[c].id)]])))

\* popParams divided by 100
customRatesOf(popParams) ==
  [k \in DOMAIN popParams |-> Over(popParams[k], Number(100))]

\* simulateYear() of the component A with the stream u: the cohorts, the
\* inflow history and the year it sets
simulateYearV3(A, u) ==
  With(calculateAnnualInflow(A.year, customRatesOf(A.popParams)),
    LAMBDA inflow :
      [A EXCEPT
         !.cohorts = updatedCohorts(A.cohorts, A.investments, inflow, u),
         !.inflowHistory = Append(@,
            [year |-> A.year + 1,
             stats |-> inflow.stats,
             masterInflow |-> inflow.master_student,
             phdInflow |-> inflow.phd_student,
             industryInflow |-> inflow.ind_junior_from_bachelor
                                + inflow.ind_junior_from_master
                                + inflow.ind_junior_from_phd,
             govInflow |-> inflow.gov_junior_from_bachelor
                           + inflow.gov_junior_from_master,
             researchInflow |-> inflow.res_junior]),
         !.year = @ + 1])

\* The useState values of the component when it mounts; the history, which a
\* render effect fills with display statistics, and the view mode are left out
Mounted ==
  [year |-> 0,
   cohorts |-> createInitialCohortsV3,
   inflowHistory |-> << >>,
   isSimulating |-> FALSE,
   investments |-> [university |-> 30, industry |-> 35, government |-> 15, research |-> 20],
   popParams |-> [masterEnrollment |-> Times(rates.masterEnrollment, Number(100)),
                  phdEnrollment |-> Times(rates.phdEnrollment, Number(100)),
                  phdToAcademia |-> Times(rates.phdToAcademia, Number(100))]]

\* The years the timer of the component runs, below the 30 at which the
\* component stops it
MaxPrototypeYears == 2

\* The values the user moves the slider of the master enrollment rate to
MasterEnrollmentChoices == {12, 15}

InitPrototype ==
  /\ NoEngine
  /\ NoInstances
  /\ NoWorker
  /\ NoCall
  /\ app = << Mounted >>

\* The component renders A
Renders(A) ==
  /\ app' = << A >>
  /\ UNCHANGED << engineVars, randomVars, workerVars, callVars >>

\* The start/stop button: setIsSimulating(!isSimulating)
ClickStartStop ==
  /\ app # << >>
  /\ Renders([app[1] EXCEPT !.isSimulating = ~@])

\* The timer the effect sets while isSimulating && year < 30 calls simulateYear
TimerSimulateYear ==
  /\ app # << >>
  /\ app[1].isSimulating
  /\ app[1].year < 30
  /\ app[1].year < MaxPrototypeYears
  /\ \E u \in Streams : Renders(simulateYearV3(app[1], u))

\* resetSimulation()
resetSimulation ==
  /\ app # << >>
  /\ Renders([app[1] EXCEPT !.year = 0,
                            !.cohorts = createInitialCohortsV3,
                            !.inflowHistory = << >>,
                            !.isSimulating = FALSE])

\* The slider of the master enrollment rate:
\* setPopParams(p => ({...p, masterEnrollment: parseFloat(e.target.value)}))
SlideMasterEnrollment ==
  /\ app # << >>
  /\ \E value \in MasterEnrollmentChoices :
       Renders([app[1] EXCEPT !.popParams.masterEnrollment = Number(value)])

NextPrototype ==
  \/ ClickStartStop
  \/ TimerSimulateYear
  \/ resetSimulation
  \/ SlideMasterEnrollment

SpecPrototype == InitPrototype /\ [][NextPrototype]_vars

\* The number of entries of TRANSITION_MATRIX simulateYear has read before it
\* comes to the c-th cohort
EntriesBefore(cohorts, c) ==
  SumSeq([d \in 1..(c - 1) |-> Len(entriesOf(cohorts[d]))])

\* The flow of the e-th entry of the c-th cohort computed from the count the
\* cohort has in snapshot, with the number of the stream that entry draws
SnapshotFlow(snapshot, c, e, u) ==
  flowCountOf(snapshot[c].count, entriesOf(snapshot[c])[e].rate,
              MathRandom(u, Len(SkillKeys) * Len(snapshot)
                            + EntriesBefore(snapshot, c) + e))

\* All those flows: per cohort a sequence with one flow per entry
SnapshotFlows(snapshot, u) ==
  [c \in 1..Len(snapshot) |->
     [e \in 1..Len(entriesOf(snapshot[c])) |-> SnapshotFlow(snapshot, c, e, u)] \o << >>]
  \o << >>

\* What leaves the c-th cohort, and what arrives in the cohort id, given the
\* flows
Leaving(flows, c) == SumSeq(flows[c])

Arriving(snapshot, flows, id) ==
  SumSeq([c \in 1..Len(snapshot) |->
            SumSeq([e \in 1..Len(flows[c]) |->
                      IF entriesOf(snapshot[c])[e].targetId = id THEN flows[c][e]
                      ELSE 0])])

\* The new entrants of a cohort
NewEntrants(inflow, id) ==
  CASE id = "master_student" -> inflow.master_student
    [] id = "phd_student"    -> inflow.phd_student
    [] id = "assist_prof"    -> inflow.assist_prof
    [] id = "ind_junior"     -> inflow.ind_junior_from_bachelor
                                + inflow.ind_junior_from_master
                                + inflow.ind_junior_from_phd
    [] id = "gov_junior"     -> inflow.gov_junior_from_bachelor
                                + inflow.gov_junior_from_master
    [] id = "res_junior"     -> inflow.res_junior
    [] OTHER                 -> 0

\* The counts a year leaves when every flow is computed from the snapshot:
\* per cohort its count in the snapshot, less all that leaves it, plus all
\* that arrives and the new entrants, and at least 100
SimultaneousCounts(snapshot, inflow, u) ==
  With(SnapshotFlows(snapshot, u),
    LAMBDA flows :
      [c \in 1..Len(snapshot) |->
         With(snapshot[c].count - Leaving(flows, c)
              + Arriving(snapshot, flows, snapshot[c].id)
              + NewEntrants(inflow, snapshot[c].id),
           LAMBDA count : IF count < 100 THEN 100 ELSE count)])

FirstYearFlows == [u \in Streams |-> SnapshotFlows(createInitialCohortsV3, u)]

====
